---- MODULE Spec2Model ----
(***************************************************************************)
(* Model of the xDS control-plane core of edussx/osm: the ADS stream       *)
(* manager (pkg/envoy/ads/stream.go), the event dispatcher / coalescer     *)
(* (pkg/catalog/dispatcher.go) and the collaborators they call.            *)
(***************************************************************************)
EXTENDS Integers, Sequences, FiniteSets, TLC

(***************************************************************************)
(* Bounds of the model.                                                    *)
(***************************************************************************)
\* number of ADS streams (connecting proxies)
NumStreams == 2
\* jobs one stream may enqueue on the work queue when its proxy sends any request
MaxJobs == 1
\* jobs one stream may enqueue on the work queue when pushes are explored
MaxPushJobs == 2
\* width, in bits, the unsigned 64-bit version counter is scaled down to
UintBits == 4
\* capacity of a subscriber's sink on the event bus
SinkSize == 1

Streams == 1..NumStreams

\* largest value of the (scaled) unsigned version counter
MaxUint64 == 2^UintBits - 1

(***************************************************************************)
(* Type URIs.                                                              *)
(***************************************************************************)
TypeCDS == "CDS"
TypeEDS == "EDS"
TypeLDS == "LDS"
TypeRDS == "RDS"
TypeSDS == "SDS"
TypeEmptyURI == "EmptyURI"
TypeUnknown == "bogus.type/Unknown"

XDSTypes == {TypeCDS, TypeEDS, TypeLDS, TypeRDS, TypeSDS}

\* the type URLs the server knows, the reserved empty sentinel included
ValidURI == XDSTypes \cup {TypeEmptyURI}

IsWildcardTypeURI(t) == t \in {TypeCDS, TypeLDS}

(***************************************************************************)
(* Strings of the wire format: a string is a sequence of characters.       *)
(***************************************************************************)
DigitChars == <<"0", "1", "2", "3", "4", "5", "6", "7", "8", "9">>

IsDigit(c) == \E i \in 1..10 : DigitChars[i] = c

DigitVal(c) == (CHOOSE i \in 1..10 : DigitChars[i] = c) - 1

\* strconv.ParseUint(s, 10, 64): err is TRUE for the empty string, for a
\* character that is no decimal digit and for a value out of range
RECURSIVE ParseDigits(_, _)
ParseDigits(s, acc) ==
    IF s = <<>> THEN [err |-> FALSE, val |-> acc]
    ELSE IF ~IsDigit(Head(s)) THEN [err |-> TRUE, val |-> 0]
    ELSE LET n == acc * 10 + DigitVal(Head(s)) IN
         IF n > MaxUint64 THEN [err |-> TRUE, val |-> MaxUint64]
         ELSE ParseDigits(Tail(s), n)

ParseUint(s) ==
    IF s = <<>> THEN [err |-> TRUE, val |-> 0] ELSE ParseDigits(s, 0)

\* strconv.FormatUint(n, 10)
RECURSIVE FormatUint(_)
FormatUint(n) ==
    IF n < 10 THEN <<DigitChars[n + 1]>>
    ELSE Append(FormatUint(n \div 10), DigitChars[(n % 10) + 1])

(***************************************************************************)
(* Nonces: opaque tokens.  EmptyNonce is the empty string, ForeignNonce a   *)
(* token issued by another control plane, k > 0 the k-th token issued on   *)
(* this stream.                                                            *)
(***************************************************************************)
EmptyNonce == 0
ForeignNonce == -1

(***************************************************************************)
(* Resource names.                                                         *)
(***************************************************************************)
Names == {"A", "B"}

\* the resource_names lists a request may carry
NameLists == {<<>>, <<"A">>, <<"A", "B">>, <<"B", "A">>}

\* getRequestedResourceNamesSet: the list of a request as a set
getRequestedResourceNamesSet(req) ==
    {req.resourceNames[i] : i \in 1..Len(req.resourceNames)}

(***************************************************************************)
(* Per-proxy state: one record per proxy, one entry per type URI.          *)
(***************************************************************************)
NewProxy ==
    [lastSentVersion     |-> [t \in XDSTypes |-> 0],
     lastSentNonce       |-> [t \in XDSTypes |-> EmptyNonce],
     lastAppliedVersion  |-> [t \in XDSTypes |-> 0],
     subscribedResources |-> [t \in XDSTypes |-> {}],
     lastSentResources   |-> [t \in XDSTypes |-> {}]]

SetLastSentVersion(px, t, v) ==
    [px EXCEPT !.lastSentVersion[t] = v]

SetLastAppliedVersion(px, t, v) ==
    [px EXCEPT !.lastAppliedVersion[t] = v]

SetSubscribedResources(px, t, names) ==
    [px EXCEPT !.subscribedResources[t] = names]

SetLastResourcesSent(px, t, names) ==
    [px EXCEPT !.lastSentResources[t] = names]

\* the next version of a type URI, in unsigned arithmetic of the counter's width
IncrementLastSentVersion(px, t) ==
    [px EXCEPT !.lastSentVersion[t] = (px.lastSentVersion[t] + 1) % (MaxUint64 + 1)]

SetNewNonce(px, t, nonce) ==
    [px EXCEPT !.lastSentNonce[t] = nonce]

(***************************************************************************)
(* Request handling: pkg/envoy/ads/stream.go                               *)
(***************************************************************************)
\* variant: a version-info that does not parse counts as 0
parseRequestVersionLenient(req) ==
    IF req.versionInfo = <<>> THEN [err |-> FALSE, val |-> 0]
    ELSE [err |-> FALSE, val |-> ParseUint(req.versionInfo).val]

\* parseRequestVersion: the empty version-info is 0
parseRequestVersion(req) ==
    IF req.versionInfo = <<>> THEN [err |-> FALSE, val |-> 0]
    ELSE ParseUint(req.versionInfo)

Decision(reply, px, reconnects) ==
    [reply |-> reply, proxy |-> px, reconnects |-> reconnects]

\* variant: the first request does not record the resources it names
firstRequestOnStreamNoSubscribe(px, typeURL, resourcesRequested) ==
    Decision(TRUE, px, 0)

\* variant: a request without nonce starts the type URI over
firstRequestOnStreamStartsOver(px, typeURL, resourcesRequested) ==
    Decision(TRUE,
             SetSubscribedResources(
                 SetNewNonce(SetLastAppliedVersion(SetLastSentVersion(px, typeURL, 0), typeURL, 0),
                             typeURL, EmptyNonce),
                 typeURL, resourcesRequested),
             0)

\* respondToRequest, empty nonce: the first request on the stream is always replied to
firstRequestOnStream(px, typeURL, resourcesRequested) ==
    Decision(TRUE, SetSubscribedResources(px, typeURL, resourcesRequested), 0)

\* variant: the version the proxy reconnects with is adopted for every type URI
reconnectedProxyAllTypes(px, typeURL, requestVersion, resourcesRequested) ==
    Decision(TRUE,
             SetSubscribedResources(
                 SetLastAppliedVersion(
                     [px EXCEPT !.lastSentVersion = [t \in XDSTypes |-> requestVersion]],
                     typeURL, requestVersion),
                 typeURL, resourcesRequested),
             1)

\* respondToRequest, a nonce while none was issued: the proxy reconnects with
\* the version it has applied
reconnectedProxy(px, typeURL, requestVersion, resourcesRequested) ==
    Decision(TRUE,
             SetSubscribedResources(
                 SetLastAppliedVersion(
                     SetLastSentVersion(px, typeURL, requestVersion),
                     typeURL, requestVersion),
                 typeURL, resourcesRequested),
             1)

\* variant: a NACK records the version the proxy reports as applied
nackRequestRecordsApplied(px, typeURL, requestVersion) ==
    Decision(FALSE, SetLastAppliedVersion(px, typeURL, requestVersion), 0)

\* respondToRequest, error detail set: a NACK is logged and dropped
nackRequest(px, typeURL, requestVersion) ==
    Decision(FALSE, px, 0)

\* variant: the version of an ACK is not recorded as applied
matchingNonceKeepsApplied(px, typeURL, requestVersion, resourcesRequested) ==
    IF IsWildcardTypeURI(typeURL) THEN Decision(FALSE, px, 0)
    ELSE LET resubscribed == SetSubscribedResources(px, typeURL, resourcesRequested)
             resourcesLastSent == px.lastSentResources[typeURL]
         IN Decision(resourcesRequested # resourcesLastSent, resubscribed, 0)

\* variant: the resources named are compared for the wildcard types too
matchingNonceComparesWildcard(px, typeURL, requestVersion, resourcesRequested) ==
    LET acked == SetLastAppliedVersion(px, typeURL, requestVersion)
        resubscribed == SetSubscribedResources(acked, typeURL, resourcesRequested)
        resourcesLastSent == px.lastSentResources[typeURL]
    IN Decision(resourcesRequested # resourcesLastSent, resubscribed, 0)

\* respondToRequest, the nonces match: an ACK, or a request for other resources
matchingNonce(px, typeURL, requestVersion, resourcesRequested) ==
    LET acked == SetLastAppliedVersion(px, typeURL, requestVersion) IN
    IF IsWildcardTypeURI(typeURL) THEN Decision(FALSE, acked, 0)
    ELSE LET resubscribed == SetSubscribedResources(acked, typeURL, resourcesRequested)
             resourcesLastSent == px.lastSentResources[typeURL]
         IN Decision(resourcesRequested # resourcesLastSent, resubscribed, 0)

\* variant: a request with a superseded nonce is taken as one with the last sent nonce
staleNonceAcks(px, typeURL, requestVersion, resourcesRequested) ==
    matchingNonce(px, typeURL, requestVersion, resourcesRequested)

\* respondToRequest, a nonce that is not the last sent one: the request has
\* not caught up and is ignored
staleNonce(px, typeURL, requestVersion, resourcesRequested) ==
    Decision(FALSE, px, 0)

\* respondToRequest: the decision to reply to a request, with the proxy
\* state it leaves and the number of reconnects it counts
respondToRequest(px, req) ==
    IF req.typeUrl \notin ValidURI THEN Decision(FALSE, px, 0)
    ELSE IF req.typeUrl = TypeEmptyURI THEN Decision(FALSE, px, 0)
    ELSE
      LET typeURL == req.typeUrl
          parsed == parseRequestVersion(req)
          requestVersion == parsed.val
          requestNonce == req.responseNonce
          lastNonce == px.lastSentNonce[typeURL]
          resourcesRequested == getRequestedResourceNamesSet(req)
      IN
      IF parsed.err THEN Decision(FALSE, px, 0)
      ELSE IF req.errorDetail THEN nackRequest(px, typeURL, requestVersion)
      ELSE IF requestNonce = EmptyNonce
           THEN firstRequestOnStream(px, typeURL, resourcesRequested)
      ELSE IF lastNonce = EmptyNonce
           THEN reconnectedProxy(px, typeURL, requestVersion, resourcesRequested)
      ELSE IF requestNonce # lastNonce
           THEN staleNonce(px, typeURL, requestVersion, resourcesRequested)
      ELSE matchingNonce(px, typeURL, requestVersion, resourcesRequested)

\* variant: only a CDS response counts
shouldPushUpdateCDSOnly(px) ==
    ~(px.lastSentNonce[TypeCDS] = EmptyNonce)

\* shouldPushUpdate: a control-plane push needs a CDS or an LDS response sent before
shouldPushUpdate(px) ==
    ~(px.lastSentNonce[TypeLDS] = EmptyNonce /\ px.lastSentNonce[TypeCDS] = EmptyNonce)

(***************************************************************************)
(* Certificate common names: a sequence of labels and "." delimiters.       *)
(***************************************************************************)
DomainDelimiter == "."

\* strings.Split(cn, "."): the chunks between the delimiters
RECURSIVE Split(_)
Split(cn) ==
    IF \A i \in 1..Len(cn) : cn[i] # DomainDelimiter THEN <<cn>>
    ELSE LET i == CHOOSE k \in 1..Len(cn) :
                      /\ cn[k] = DomainDelimiter
                      /\ \A j \in 1..(k - 1) : cn[j] # DomainDelimiter
         IN <<SubSeq(cn, 1, i - 1)>> \o Split(SubSeq(cn, i + 1, Len(cn)))

K8sServiceAccount(name, namespace) == [Name |-> name, Namespace |-> namespace]

\* GetServiceIdentityFromProxyCertificate: the proxy certificate's common name
\* is <proxy-uuid>.<kind>.<service-account>.<namespace>
GetServiceIdentityFromProxyCertificate(cn) ==
    LET chunks == Split(cn) IN
    IF Len(chunks) < 4 THEN [err |-> TRUE, sa |-> K8sServiceAccount(<<>>, <<>>)]
    ELSE [err |-> FALSE, sa |-> K8sServiceAccount(chunks[3], chunks[4])]

\* variant: a common name of two components is enough
isCNforProxyTwoChunks(proxyCN, cn) ==
    LET proxyIdentity == GetServiceIdentityFromProxyCertificate(proxyCN)
        chunks == Split(cn)
    IN IF proxyIdentity.err THEN FALSE
       ELSE IF Len(chunks) < 2 THEN FALSE
       ELSE K8sServiceAccount(chunks[1], chunks[2]) = proxyIdentity.sa

\* isCNforProxy: the workload certificate's common name is
\* <svc-account>.<namespace>.<trust-domain>
isCNforProxy(proxyCN, cn) ==
    LET proxyIdentity == GetServiceIdentityFromProxyCertificate(proxyCN)
        chunks == Split(cn)
    IN IF proxyIdentity.err THEN FALSE
       ELSE IF Len(chunks) < 3 THEN FALSE
       ELSE K8sServiceAccount(chunks[1], chunks[2]) = proxyIdentity.sa

\* the common name of the certificate stream p connects with
StreamCN(p) ==
    <<"uuid", DomainDelimiter, "sidecar", DomainDelimiter,
      IF p = 1 THEN "sa1" ELSE "sa2", DomainDelimiter, "ns">>

\* the common name of the certificate a multicluster gateway connects with as
\* stream p
GatewayCN(p) ==
    <<"uuid", DomainDelimiter, "gateway", DomainDelimiter,
      IF p = 1 THEN "sa1" ELSE "sa2", DomainDelimiter, "ns">>

\* a common name envoy.NewProxy rejects
MalformedCN == <<"uuid">>

\* the kinds of proxy
KindSidecar == <<"sidecar">>
KindGateway == <<"gateway">>

\* Proxy.Kind: the second component of the certificate's common name
Kind(cn) == Split(cn)[2]

\* the common names of the certificates that are rotated
RotatedCNs ==
    {<<"sa1", DomainDelimiter, "ns", DomainDelimiter, "cluster">>,
     <<"sa2", DomainDelimiter, "ns", DomainDelimiter, "cluster">>,
     <<"sa1", DomainDelimiter, "ns">>}

\* the pods the lookup by certificate may find
NoPod == [found |-> FALSE, ServiceAccount |-> K8sServiceAccount(<<>>, <<>>)]

PodWith(name) == [found |-> TRUE, ServiceAccount |-> K8sServiceAccount(<<name>>, <<"ns">>)]

Pods == {NoPod, PodWith("sa1"), PodWith("sa2")}

\* variant: the service account of the pod is not verified
recordPodMetadataUnverified(cn, pod) ==
    IF Kind(cn) = KindGateway THEN [err |-> "nil", meta |-> NoPod]
    ELSE IF ~pod.found THEN [err |-> "nil", meta |-> NoPod]
    ELSE [err |-> "nil", meta |-> pod]

\* recordPodMetadata: the pod metadata recorded for the proxy and the error;
\* for a gateway no pod is looked up
recordPodMetadata(cn, pod) ==
    IF Kind(cn) = KindGateway THEN [err |-> "nil", meta |-> NoPod]
    ELSE IF ~pod.found THEN [err |-> "nil", meta |-> NoPod]
    ELSE LET certSA == GetServiceIdentityFromProxyCertificate(cn) IN
         IF certSA.err THEN [err |-> "errParse", meta |-> pod]
         ELSE IF certSA.sa # pod.ServiceAccount
              THEN [err |-> "errServiceAccountMismatch", meta |-> pod]
              ELSE [err |-> "nil", meta |-> pod]

(***************************************************************************)
(* State.                                                                  *)
(***************************************************************************)
VARIABLES
    pc,                 \* position of each stream's StreamAggregatedResources
    exitCause,          \* why a stream returned
    certCommonName,     \* common name of the stream's client certificate
    proxy,              \* per-type state of the stream's proxy
    podMetadata,        \* pod metadata of the stream's proxy
    connectedProxies,   \* the registry: the registered proxies
    proxyConnectCount,  \* the ProxyConnectCount gauge
    proxyReconnectCount,\* the ProxyReconnectCount counter
    maxDataPlaneConnections, \* configuration option; 0 is no cap
    cancelled,          \* the stream's context is cancelled
    quit,               \* the receive task has signalled quit
    subscribed,         \* the stream holds its event bus subscriptions
    broadcastUpdate,    \* sink of proxy-broadcast events: number unread
    certAnnouncement,   \* sink of certificate-rotated events
    workqueue,          \* the job each stream has enqueued and no worker has run yet
    done,               \* completion signal of the stream's job
    jobsAdded,          \* jobs the stream has enqueued
    jobBudget,          \* jobs a stream may enqueue in this exploration
    nonceCount,         \* nonces issued on the stream
    emitted,            \* responses written on the stream, per type URI
    pushSkipped         \* the stream has skipped a proxy-broadcast

streamVars ==
    <<pc, exitCause, certCommonName, proxy, podMetadata, connectedProxies,
      proxyConnectCount, proxyReconnectCount, maxDataPlaneConnections,
      cancelled, quit, subscribed, broadcastUpdate, certAnnouncement,
      workqueue, done, jobsAdded, jobBudget, nonceCount, emitted, pushSkipped>>

VARIABLES
    broadcastScheduled, \* dispatcher: a broadcast is scheduled
    chanMovingDeadline, \* dispatcher: seconds until the grace timer is ready
    chanMaxDeadline,    \* dispatcher: seconds until the hard timer is ready
    proxyBroadcastEventCount, \* the ProxyBroadcastEventCount counter
    pendingEvents,      \* qualifying events handled since the last proxy-broadcast
    sinceFirst,         \* seconds since the first of the pending events
    sinceLast,          \* seconds since the latest of the pending events
    lastTrigger,        \* the timer behind the last proxy-broadcast
    coalesced,          \* qualifying events the last proxy-broadcast covered
    waited,             \* seconds the first of them had waited for it
    idle                \* seconds the latest of them had waited for it

dispatcherVars ==
    <<broadcastScheduled, chanMovingDeadline, chanMaxDeadline,
      proxyBroadcastEventCount, pendingEvents, sinceFirst, sinceLast,
      lastTrigger, coalesced, waited, idle>>

VARIABLES
    podUIDToCN,         \* the registry's index from pod UID to certificate common name
    certificates,       \* common names of the certificates the certificate manager holds
    handler,            \* position of the certificate-release handler
    podDeleteSubscription, \* the handler's sink of pod-deleted events
    subChannel,         \* the dispatcher's sink
    scheduleRequests,   \* schedule-proxy-broadcast events the handler has published
    podEvents,          \* events published by the pod and ingress informers
    unreleased,         \* pods deleted whose certificate was not released since
    handled             \* events the handler has taken from its sink

releaseVars ==
    <<podUIDToCN, certificates, handler, podDeleteSubscription, subChannel,
      scheduleRequests, podEvents, unreleased, handled>>

VARIABLES
    cdsClusters,        \* CDS builder: the clusters collected for a proxy
    cdsResources,       \* CDS builder: the resources of the response
    duplicateClusters,  \* CDS builder: ErrDuplicateClusters errors logged
    cdsBuilt            \* CDS builder: removeDups has returned

builderVars == <<cdsClusters, cdsResources, duplicateClusters, cdsBuilt>>

\* the state of the event bus subscribers and of the CDS builder
backgroundVars == <<releaseVars, builderVars>>

\* the state of the dispatcher, of the certificate-release handler and of
\* the CDS builder
controlPlaneVars == <<dispatcherVars, releaseVars, builderVars>>

vars == <<streamVars, dispatcherVars, releaseVars, builderVars>>

NoRequest == [typeUrl |-> "nil", versionInfo |-> <<>>, responseNonce |-> EmptyNonce,
              resourceNames |-> <<>>, errorDetail |-> FALSE]

(***************************************************************************)
(* Event bus (pkg/k8s/events): per-subscriber sinks.                       *)
(***************************************************************************)
\* variant: a full sink keeps what it holds and the new event is lost
SinkPutDropsNewest(sink, event) ==
    IF Len(sink) >= SinkSize THEN sink ELSE Append(sink, event)

\* a sink after one more event: a full sink drops its oldest unread event
SinkPut(sink, event) ==
    IF Len(sink) >= SinkSize THEN Append(Tail(sink), event) ELSE Append(sink, event)

\* events.Publish of a proxy-broadcast: delivery to every subscribed stream
PublishProxyBroadcast ==
    broadcastUpdate' =
        [p \in Streams |->
            IF subscribed[p] THEN SinkPut(broadcastUpdate[p], "proxy-broadcast")
            ELSE broadcastUpdate[p]]

\* events.Publish of a certificate-rotated event for the certificate cn
PublishCertificateRotated(cn) ==
    certAnnouncement' =
        [p \in Streams |->
            IF subscribed[p] THEN SinkPut(certAnnouncement[p], cn)
            ELSE certAnnouncement[p]]

(***************************************************************************)
(* Work queue (pkg/workerpool) and the response job of a stream.           *)
(***************************************************************************)
\* a job: its proxy, its type URIs and the type URL of the request behind it
newJob(p, typeURIs, discoveryRequest) ==
    [proxy |-> p, typeURIs |-> typeURIs, request |-> discoveryRequest.typeUrl]

\* no job of the stream is queued
NoJob == [proxy |-> 0, typeURIs |-> <<>>, request |-> "nil"]

\* AddJob: the job is queued; the caller holds its completion signal
AddJob(job) ==
    /\ workqueue' = [workqueue EXCEPT ![job.proxy] = job]
    /\ done' = [done EXCEPT ![job.proxy] = FALSE]
    /\ jobsAdded' = [jobsAdded EXCEPT ![job.proxy] = @ + 1]

\* the resource names the catalog holds for every type URI
CatalogNames == {"A"}

\* the names of the resources the response builder emits for type t: all the
\* catalog's for a wildcard type, the subscribed ones it holds otherwise
ResourcesBuilt(px, t) ==
    IF IsWildcardTypeURI(t) THEN CatalogNames
    ELSE px.subscribedResources[t] \cap CatalogNames

\* the state of a proxy after one response of type t with the given nonce
\* has been written on its stream
SendDiscoveryResponse(px, t, nonce) ==
    SetLastResourcesSent(SetNewNonce(IncrementLastSentVersion(px, t), t, nonce),
                         t, ResourcesBuilt(px, t))

\* the state of a proxy after the responses of all the job's type URIs, in
\* their order, the k-th of them with nonce first + k
RECURSIVE sendResponse(_, _, _)
sendResponse(px, typeURIs, first) ==
    IF typeURIs = <<>> THEN px
    ELSE sendResponse(SendDiscoveryResponse(px, Head(typeURIs), first + 1),
                      Tail(typeURIs), first + 1)

\* the responses written on the stream for the job, appended per type URI
RECURSIVE writeResponses(_, _, _, _)
writeResponses(log, px, typeURIs, first) ==
    IF typeURIs = <<>> THEN log
    ELSE LET t == Head(typeURIs)
             response == [versionInfo |-> FormatUint(IncrementLastSentVersion(px, t).lastSentVersion[t]),
                          nonce |-> first + 1]
         IN writeResponses([log EXCEPT ![t] = Append(@, response)], px, Tail(typeURIs), first + 1)

\* how a job may end
JobOutcomes == {"ok", "build-failed", "write-failed"}

(***************************************************************************)
(* Inputs.                                                                 *)
(***************************************************************************)
\* a discovery request
DiscoveryRequest(typeUrl, versionInfo, responseNonce, resourceNames, errorDetail) ==
    [typeUrl |-> typeUrl, versionInfo |-> versionInfo, responseNonce |-> responseNonce,
     resourceNames |-> resourceNames, errorDetail |-> errorDetail]

\* the largest version_info that parses
MaxVersionInfo == FormatUint(MaxUint64)

\* the version_info one below the largest
NearMaxVersionInfo == FormatUint(MaxUint64 - 1)

\* the version_info strings that do not parse: out of range, not a number
BadVersionInfos == {FormatUint(MaxUint64 + 1), <<"1", "x">>}

\* the version last sent to proxy p for type t, as a version_info
LastVersionInfo(p, t) == FormatUint(proxy[p].lastSentVersion[t])

RequestsOf(t, versionInfos, responseNonces, resourceNames, errorDetails) ==
    [typeUrl : {t}, versionInfo : versionInfos, responseNonce : responseNonces,
     resourceNames : resourceNames, errorDetail : errorDetails]

\* requests without error detail for a known type URI and with a version that
\* parses: without nonce; with the nonce of another control plane or of a
\* superseded response; with the last sent nonce
RegularRequests(p) ==
    UNION {RequestsOf(t, {<<>>, LastVersionInfo(p, t)}, {EmptyNonce}, NameLists, {FALSE})
             \cup RequestsOf(t, {<<>>, NearMaxVersionInfo, MaxVersionInfo}, {ForeignNonce},
                             {<<"A">>, <<"B", "A">>}, {FALSE})
             \cup RequestsOf(t, {LastVersionInfo(p, t), MaxVersionInfo},
                             {proxy[p].lastSentNonce[t]} \ {EmptyNonce}, NameLists, {FALSE})
           : t \in XDSTypes}

\* NACKs: requests with error detail
NackRequests(p) ==
    UNION {RequestsOf(t, {<<"1">>}, {ForeignNonce, proxy[p].lastSentNonce[t]},
                      {<<"A">>}, {TRUE}) : t \in XDSTypes}

\* requests with an unknown or the empty type URL, or a version that does not parse
InvalidRequests(p) ==
    UNION {RequestsOf(t, {<<>>}, {EmptyNonce}, {<<"A">>}, {FALSE})
           : t \in {TypeUnknown, TypeEmptyURI}}
    \cup
    UNION {RequestsOf(t, BadVersionInfos, {EmptyNonce}, {<<"A">>}, {FALSE}) : t \in XDSTypes}

\* the discovery requests stream p may receive
Requests(p) == RegularRequests(p) \cup NackRequests(p) \cup InvalidRequests(p)

(***************************************************************************)
(* Initial state: no stream has connected.                                 *)
(***************************************************************************)
StreamInit ==
    /\ pc = [p \in Streams |-> "new"]
    /\ exitCause = [p \in Streams |-> "none"]
    /\ certCommonName = [p \in Streams |-> <<>>]
    /\ proxy = [p \in Streams |-> NewProxy]
    /\ podMetadata = [p \in Streams |-> NoPod]
    /\ connectedProxies = {}
    /\ proxyConnectCount = 0
    /\ proxyReconnectCount = 0
    /\ maxDataPlaneConnections \in {0, 1}
    /\ cancelled = [p \in Streams |-> FALSE]
    /\ quit = [p \in Streams |-> FALSE]
    /\ subscribed = [p \in Streams |-> FALSE]
    /\ broadcastUpdate = [p \in Streams |-> <<>>]
    /\ certAnnouncement = [p \in Streams |-> <<>>]
    /\ workqueue = [p \in Streams |-> NoJob]
    /\ done = [p \in Streams |-> FALSE]
    /\ jobsAdded = [p \in Streams |-> 0]
    /\ jobBudget \in {MaxJobs, MaxPushJobs}
    /\ nonceCount = [p \in Streams |-> 0]
    /\ emitted = [p \in Streams |-> [t \in XDSTypes |-> <<>>]]
    /\ pushSkipped = [p \in Streams |-> FALSE]

GetConnectedProxyCount == Cardinality(connectedProxies)

(***************************************************************************)
(* StreamAggregatedResources: start of a stream.                           *)
(***************************************************************************)
\* the stream returns with the given cause
Return(p, cause) ==
    /\ pc' = [pc EXCEPT ![p] = "done"]
    /\ exitCause' = [exitCause EXCEPT ![p] = cause]

\* variant: a stream is refused only when the count is above the option
StreamStartOverCap(p, clientValid, cn) ==
    /\ pc[p] = "new"
    /\ IF ~clientValid
       THEN /\ Return(p, "unauthenticated")
            /\ UNCHANGED <<certCommonName, proxyConnectCount>>
       ELSE IF maxDataPlaneConnections # 0 /\ GetConnectedProxyCount > maxDataPlaneConnections
       THEN /\ Return(p, "errTooManyConnections")
            /\ UNCHANGED <<certCommonName, proxyConnectCount>>
       ELSE /\ pc' = [pc EXCEPT ![p] = "connected"]
            /\ certCommonName' = [certCommonName EXCEPT ![p] = cn]
            /\ proxyConnectCount' = proxyConnectCount + 1
            /\ UNCHANGED exitCause
    /\ UNCHANGED <<proxy, podMetadata, connectedProxies, proxyReconnectCount,
                   maxDataPlaneConnections, jobBudget, cancelled, quit, subscribed,
                   broadcastUpdate, certAnnouncement, workqueue, done, jobsAdded,
                   nonceCount, emitted, pushSkipped>>
    /\ UNCHANGED controlPlaneVars

\* ValidateClient and the check of max-data-plane-connections
StreamStart(p, clientValid, cn) ==
    /\ pc[p] = "new"
    /\ IF ~clientValid
       THEN /\ Return(p, "unauthenticated")
            /\ UNCHANGED <<certCommonName, proxyConnectCount>>
       ELSE IF maxDataPlaneConnections # 0 /\ GetConnectedProxyCount >= maxDataPlaneConnections
       THEN /\ Return(p, "errTooManyConnections")
            /\ UNCHANGED <<certCommonName, proxyConnectCount>>
       ELSE /\ pc' = [pc EXCEPT ![p] = "connected"]
            /\ certCommonName' = [certCommonName EXCEPT ![p] = cn]
            /\ proxyConnectCount' = proxyConnectCount + 1
            /\ UNCHANGED exitCause
    /\ UNCHANGED <<proxy, podMetadata, connectedProxies, proxyReconnectCount,
                   maxDataPlaneConnections, jobBudget, cancelled, quit, subscribed,
                   broadcastUpdate, certAnnouncement, workqueue, done, jobsAdded,
                   nonceCount, emitted, pushSkipped>>
    /\ UNCHANGED controlPlaneVars

\* NewProxy, recordPodMetadata, RegisterProxy, the receive task and the two
\* subscriptions
InitProxy(p, pod) ==
    /\ pc[p] = "connected"
    /\ IF Len(Split(certCommonName[p])) < 4
       THEN /\ Return(p, "errInitializingProxy")
            /\ UNCHANGED <<podMetadata, connectedProxies, subscribed>>
       ELSE LET recorded == recordPodMetadata(certCommonName[p], pod) IN
            /\ podMetadata' = [podMetadata EXCEPT ![p] = recorded.meta]
            /\ IF recorded.err = "errServiceAccountMismatch"
               THEN /\ Return(p, "errServiceAccountMismatch")
                    /\ UNCHANGED <<connectedProxies, subscribed>>
               ELSE /\ connectedProxies' = connectedProxies \cup {p}
                    /\ subscribed' = [subscribed EXCEPT ![p] = TRUE]
                    /\ pc' = [pc EXCEPT ![p] = "loop"]
                    /\ UNCHANGED exitCause
    /\ UNCHANGED <<certCommonName, proxy, proxyConnectCount, proxyReconnectCount,
                   maxDataPlaneConnections, jobBudget, cancelled, quit, broadcastUpdate,
                   certAnnouncement, workqueue, done, jobsAdded, nonceCount, emitted, pushSkipped>>
    /\ UNCHANGED controlPlaneVars

(***************************************************************************)
(* StreamAggregatedResources: the cases of the main loop's select.         *)
(***************************************************************************)
\* the deferred UnregisterProxy
UnregisterProxy(p) ==
    connectedProxies' = connectedProxies \ {p}

ExitFrame ==
    UNCHANGED <<controlPlaneVars, certCommonName, proxy, podMetadata, proxyReconnectCount,
                maxDataPlaneConnections, jobBudget, cancelled, quit, subscribed,
                broadcastUpdate, certAnnouncement, workqueue, done, jobsAdded,
                nonceCount, emitted, pushSkipped>>

\* variant: the cancelled stream returns without the deferred UnregisterProxy
ExitCancelledKeepsProxy(p) ==
    /\ pc[p] = "loop"
    /\ cancelled[p]
    /\ proxyConnectCount' = proxyConnectCount - 1
    /\ Return(p, "cancelled")
    /\ UNCHANGED connectedProxies
    /\ ExitFrame

\* case <-ctx.Done()
ExitCancelled(p) ==
    /\ pc[p] = "loop"
    /\ cancelled[p]
    /\ proxyConnectCount' = proxyConnectCount - 1
    /\ Return(p, "cancelled")
    /\ UnregisterProxy(p)
    /\ ExitFrame

\* variant: the quit case returns without the deferred UnregisterProxy
ExitQuitNoUnregister(p) ==
    /\ pc[p] = "loop"
    /\ quit[p]
    /\ proxyConnectCount' = proxyConnectCount - 1
    /\ Return(p, "quit")
    /\ UNCHANGED connectedProxies
    /\ ExitFrame

\* case <-quit
ExitQuit(p) ==
    /\ pc[p] = "loop"
    /\ quit[p]
    /\ proxyConnectCount' = proxyConnectCount - 1
    /\ Return(p, "quit")
    /\ UnregisterProxy(p)
    /\ ExitFrame

\* case discoveryRequest, ok := <-requests with ok false
ExitClosed(p) ==
    /\ pc[p] = "loop"
    /\ quit[p]
    /\ proxyConnectCount' = proxyConnectCount - 1
    /\ Return(p, "errGrpcClosed")
    /\ UnregisterProxy(p)
    /\ ExitFrame

\* case discoveryRequest, ok := <-requests with ok true
HandleRequest(p, req) ==
    /\ pc[p] = "loop"
    /\ ~quit[p]
    /\ LET decision == respondToRequest(proxy[p], req) IN
       /\ proxy' = [proxy EXCEPT ![p] = decision.proxy]
       /\ proxyReconnectCount' = proxyReconnectCount + decision.reconnects
       /\ IF decision.reply
          THEN /\ jobsAdded[p] < jobBudget
               /\ AddJob(newJob(p, <<req.typeUrl>>, req))
               /\ pc' = [pc EXCEPT ![p] = "await"]
          ELSE UNCHANGED <<workqueue, done, jobsAdded, pc>>
    /\ UNCHANGED <<exitCause, certCommonName, podMetadata, connectedProxies,
                   proxyConnectCount, maxDataPlaneConnections, jobBudget, cancelled, quit,
                   subscribed, broadcastUpdate, certAnnouncement, nonceCount, emitted, pushSkipped>>
    /\ UNCHANGED controlPlaneVars

\* variant: the job of a proxy-broadcast regenerates the secrets too
HandleBroadcastWithSDS(p) ==
    /\ pc[p] = "loop"
    /\ broadcastUpdate[p] # <<>>
    /\ broadcastUpdate' = [broadcastUpdate EXCEPT ![p] = Tail(@)]
    /\ IF shouldPushUpdate(proxy[p])
       THEN /\ jobsAdded[p] < jobBudget
            /\ AddJob(newJob(p, <<TypeCDS, TypeEDS, TypeLDS, TypeRDS, TypeSDS>>, NoRequest))
            /\ pc' = [pc EXCEPT ![p] = "await"]
            /\ UNCHANGED pushSkipped
       ELSE /\ pushSkipped' = [pushSkipped EXCEPT ![p] = TRUE]
            /\ UNCHANGED <<workqueue, done, jobsAdded, pc>>
    /\ UNCHANGED <<exitCause, certCommonName, proxy, podMetadata, connectedProxies,
                   proxyConnectCount, proxyReconnectCount, maxDataPlaneConnections, jobBudget,
                   cancelled, quit, subscribed, certAnnouncement, nonceCount, emitted>>
    /\ UNCHANGED controlPlaneVars

\* case <-broadcastUpdate
HandleBroadcast(p) ==
    /\ pc[p] = "loop"
    /\ broadcastUpdate[p] # <<>>
    /\ broadcastUpdate' = [broadcastUpdate EXCEPT ![p] = Tail(@)]
    /\ IF shouldPushUpdate(proxy[p])
       THEN /\ jobsAdded[p] < jobBudget
            /\ AddJob(newJob(p, <<TypeCDS, TypeEDS, TypeLDS, TypeRDS>>, NoRequest))
            /\ pc' = [pc EXCEPT ![p] = "await"]
            /\ UNCHANGED pushSkipped
       ELSE /\ pushSkipped' = [pushSkipped EXCEPT ![p] = TRUE]
            /\ UNCHANGED <<workqueue, done, jobsAdded, pc>>
    /\ UNCHANGED <<exitCause, certCommonName, proxy, podMetadata, connectedProxies,
                   proxyConnectCount, proxyReconnectCount, maxDataPlaneConnections, jobBudget,
                   cancelled, quit, subscribed, certAnnouncement, nonceCount, emitted>>
    /\ UNCHANGED controlPlaneVars

\* case certUpdateMsg := <-certAnnouncement
HandleCertificateRotated(p) ==
    /\ pc[p] = "loop"
    /\ certAnnouncement[p] # <<>>
    /\ certAnnouncement' = [certAnnouncement EXCEPT ![p] = Tail(@)]
    /\ IF isCNforProxy(certCommonName[p], Head(certAnnouncement[p]))
       THEN /\ jobsAdded[p] < jobBudget
            /\ AddJob(newJob(p, <<TypeSDS>>, NoRequest))
            /\ pc' = [pc EXCEPT ![p] = "await"]
       ELSE UNCHANGED <<workqueue, done, jobsAdded, pc>>
    /\ UNCHANGED <<exitCause, certCommonName, proxy, podMetadata, connectedProxies,
                   proxyConnectCount, proxyReconnectCount, maxDataPlaneConnections, jobBudget,
                   cancelled, quit, subscribed, broadcastUpdate, nonceCount, emitted, pushSkipped>>
    /\ UNCHANGED controlPlaneVars

\* variant: the main loop goes on without the completion signal of its job
JobCompletedNoWait(p) ==
    /\ pc[p] = "await"
    /\ pc' = [pc EXCEPT ![p] = "loop"]
    /\ done' = [done EXCEPT ![p] = FALSE]
    /\ UNCHANGED <<exitCause, certCommonName, proxy, podMetadata, connectedProxies,
                   proxyConnectCount, proxyReconnectCount, maxDataPlaneConnections, jobBudget,
                   cancelled, quit, subscribed, broadcastUpdate, certAnnouncement,
                   workqueue, jobsAdded, nonceCount, emitted, pushSkipped>>
    /\ UNCHANGED controlPlaneVars

\* the completion signal of the enqueued job arrives: <-s.workqueues.AddJob(...)
JobCompleted(p) ==
    /\ pc[p] = "await"
    /\ done[p]
    /\ pc' = [pc EXCEPT ![p] = "loop"]
    /\ done' = [done EXCEPT ![p] = FALSE]
    /\ UNCHANGED <<exitCause, certCommonName, proxy, podMetadata, connectedProxies,
                   proxyConnectCount, proxyReconnectCount, maxDataPlaneConnections, jobBudget,
                   cancelled, quit, subscribed, broadcastUpdate, certAnnouncement,
                   workqueue, jobsAdded, nonceCount, emitted, pushSkipped>>
    /\ UNCHANGED controlPlaneVars

(***************************************************************************)
(* A worker of the pool runs the queued job of stream p.                   *)
(***************************************************************************)
\* variant: a job that fails does not fire its completion signal
RunJobFailureSilent(p, outcome) ==
    /\ workqueue[p] # NoJob
    /\ LET job == workqueue[p]
       IN /\ workqueue' = [workqueue EXCEPT ![p] = NoJob]
          /\ done' = [done EXCEPT ![p] = (outcome = "ok")]
          /\ IF outcome = "ok"
             THEN /\ proxy' = [proxy EXCEPT ![p] = sendResponse(@, job.typeURIs, nonceCount[p])]
                  /\ emitted' = [emitted EXCEPT ![p] = writeResponses(@, proxy[p], job.typeURIs, nonceCount[p])]
                  /\ nonceCount' = [nonceCount EXCEPT ![p] = @ + Len(job.typeURIs)]
             ELSE UNCHANGED <<proxy, emitted, nonceCount>>
    /\ UNCHANGED <<pc, exitCause, certCommonName, podMetadata, connectedProxies,
                   proxyConnectCount, proxyReconnectCount, maxDataPlaneConnections, jobBudget,
                   cancelled, quit, subscribed, broadcastUpdate, certAnnouncement,
                   jobsAdded, pushSkipped>>
    /\ UNCHANGED controlPlaneVars

\* variant: version, nonce and resources are recorded before the write, and
\* stay recorded when the write fails
RunJobWriteFailureRecorded(p, outcome) ==
    /\ workqueue[p] # NoJob
    /\ LET job == workqueue[p]
       IN /\ workqueue' = [workqueue EXCEPT ![p] = NoJob]
          /\ done' = [done EXCEPT ![p] = TRUE]
          /\ IF outcome = "build-failed"
             THEN UNCHANGED <<proxy, emitted, nonceCount>>
             ELSE /\ proxy' = [proxy EXCEPT ![p] = sendResponse(@, job.typeURIs, nonceCount[p])]
                  /\ nonceCount' = [nonceCount EXCEPT ![p] = @ + Len(job.typeURIs)]
                  /\ IF outcome = "ok"
                     THEN emitted' = [emitted EXCEPT ![p] =
                                         writeResponses(@, proxy[p], job.typeURIs, nonceCount[p])]
                     ELSE UNCHANGED emitted
    /\ UNCHANGED <<pc, exitCause, certCommonName, podMetadata, connectedProxies,
                   proxyConnectCount, proxyReconnectCount, maxDataPlaneConnections, jobBudget,
                   cancelled, quit, subscribed, broadcastUpdate, certAnnouncement,
                   jobsAdded, pushSkipped>>
    /\ UNCHANGED controlPlaneVars

\* a worker takes the job of stream p from the queue and runs it to the given
\* outcome; the completion signal fires whatever the outcome
RunJob(p, outcome) ==
    /\ workqueue[p] # NoJob
    /\ LET job == workqueue[p]
       IN /\ workqueue' = [workqueue EXCEPT ![p] = NoJob]
          /\ done' = [done EXCEPT ![p] = TRUE]
          /\ IF outcome = "ok"
             THEN /\ proxy' = [proxy EXCEPT ![p] = sendResponse(@, job.typeURIs, nonceCount[p])]
                  /\ emitted' = [emitted EXCEPT ![p] = writeResponses(@, proxy[p], job.typeURIs, nonceCount[p])]
                  /\ nonceCount' = [nonceCount EXCEPT ![p] = @ + Len(job.typeURIs)]
             ELSE UNCHANGED <<proxy, emitted, nonceCount>>
    /\ UNCHANGED <<pc, exitCause, certCommonName, podMetadata, connectedProxies,
                   proxyConnectCount, proxyReconnectCount, maxDataPlaneConnections, jobBudget,
                   cancelled, quit, subscribed, broadcastUpdate, certAnnouncement,
                   jobsAdded, pushSkipped>>
    /\ UNCHANGED controlPlaneVars

(***************************************************************************)
(* Environment of the streams.                                             *)
(***************************************************************************)
EnvFrame ==
    UNCHANGED <<controlPlaneVars, pc, exitCause, certCommonName, proxy, podMetadata, connectedProxies,
                proxyConnectCount, proxyReconnectCount, maxDataPlaneConnections, jobBudget,
                subscribed, workqueue, done, jobsAdded, nonceCount, emitted, pushSkipped>>

\* the transport cancels the stream's context
CancelStream(p) ==
    /\ pc[p] \in {"loop", "await"}
    /\ ~cancelled[p]
    /\ cancelled' = [cancelled EXCEPT ![p] = TRUE]
    /\ UNCHANGED <<quit, broadcastUpdate, certAnnouncement>>
    /\ EnvFrame

\* the receive task reads an error or EOF: it closes requests and signals quit
ReceiveFailed(p) ==
    /\ pc[p] \in {"loop", "await"}
    /\ ~quit[p]
    /\ quit' = [quit EXCEPT ![p] = TRUE]
    /\ UNCHANGED <<cancelled, broadcastUpdate, certAnnouncement>>
    /\ EnvFrame

\* the dispatcher publishes a proxy-broadcast
ProxyBroadcastPublished ==
    /\ PublishProxyBroadcast
    /\ UNCHANGED <<cancelled, quit, certAnnouncement>>
    /\ EnvFrame

\* the certificate provider rotates the certificate with common name cn
CertificateRotated(cn) ==
    /\ PublishCertificateRotated(cn)
    /\ UNCHANGED <<cancelled, quit, broadcastUpdate>>
    /\ EnvFrame

(***************************************************************************)
(* Dispatcher / coalescer: pkg/catalog/dispatcher.go.  Time is counted in  *)
(* seconds.                                                                *)
(***************************************************************************)
\* qualifying events handled between two proxy-broadcasts
MaxEvents == 8
\* proxy-broadcasts published
MaxBroadcasts == 2

maxBroadcastDeadlineTime == 15
maxGraceDeadlineTime == 3

\* a timer channel that never becomes ready: make(<-chan time.Time)
NoTimer == -1

\* announcement types by the words of their String()
ScheduleProxyBroadcast == <<"schedule", "proxy", "broadcast">>
PodAdded == <<"pod", "added">>
PodDeleted == <<"pod", "deleted">>
PodUpdated == <<"pod", "updated">>
ServiceUpdated == <<"service", "updated">>

\* announcement types the dispatcher receives
DispatcherTopics == {ScheduleProxyBroadcast, PodAdded, PodDeleted, PodUpdated, ServiceUpdated}

\* the objects an event carries
Objects == {"nil", "obj1", "obj2"}

PubSubMessage(type, old, new) ==
    [AnnouncementType |-> type, OldObj |-> old, NewObj |-> new]

\* strings.HasSuffix
HasSuffix(str, suffix) ==
    /\ Len(str) >= Len(suffix)
    /\ SubSeq(str, Len(str) - Len(suffix) + 1, Len(str)) = suffix

\* variant: an event of an updated topic is never a delta
isDeltaUpdateByTopic(psubMsg) ==
    ~HasSuffix(psubMsg.AnnouncementType, <<"updated">>)

\* isDeltaUpdate
isDeltaUpdate(psubMsg) ==
    ~(HasSuffix(psubMsg.AnnouncementType, <<"updated">>) /\ psubMsg.OldObj = psubMsg.NewObj)

DispatcherInit ==
    /\ broadcastScheduled = FALSE
    /\ chanMovingDeadline = NoTimer
    /\ chanMaxDeadline = NoTimer
    /\ proxyBroadcastEventCount = 0
    /\ pendingEvents = 0
    /\ sinceFirst = 0
    /\ sinceLast = 0
    /\ lastTrigger = "none"
    /\ coalesced = 0
    /\ waited = 0
    /\ idle = 0

\* what the dispatcher leaves alone
DispatcherFrame ==
    UNCHANGED <<pc, exitCause, certCommonName, proxy, podMetadata, connectedProxies,
                proxyConnectCount, proxyReconnectCount, maxDataPlaneConnections, jobBudget,
                cancelled, quit, subscribed, certAnnouncement, workqueue, done,
                jobsAdded, nonceCount, emitted, pushSkipped>>

\* variant: the moving deadline is armed by the first event only
RearmMovingDeadlineOnce(scheduled) ==
    IF ~scheduled THEN maxGraceDeadlineTime ELSE chanMovingDeadline

\* the moving deadline after a qualifying event
RearmMovingDeadline(scheduled) == maxGraceDeadlineTime

\* variant: a later event keeps the max deadline from firing before the
\* moving deadline it arms
RearmMaxDeadlineAfterGrace(scheduled) ==
    IF ~scheduled THEN maxBroadcastDeadlineTime
    ELSE IF chanMaxDeadline < maxGraceDeadlineTime THEN maxGraceDeadlineTime
    ELSE chanMaxDeadline

\* variant: the max deadline is armed anew by every event
RearmMaxDeadlineAlways(scheduled) ==
    maxBroadcastDeadlineTime

\* the max deadline after a qualifying event
RearmMaxDeadline(scheduled) ==
    IF ~scheduled THEN maxBroadcastDeadlineTime ELSE chanMaxDeadline

\* variant: a request for a proxy-broadcast opens no window and arms no timer
CoalesceWithoutRequests(psubMessage) ==
    /\ IF isDeltaUpdate(psubMessage) /\ psubMessage.AnnouncementType # ScheduleProxyBroadcast
       THEN /\ pendingEvents < MaxEvents
            /\ broadcastScheduled \/ proxyBroadcastEventCount < MaxBroadcasts
            /\ broadcastScheduled' = TRUE
            /\ chanMaxDeadline' = RearmMaxDeadline(broadcastScheduled)
            /\ chanMovingDeadline' = RearmMovingDeadline(broadcastScheduled)
            /\ pendingEvents' = pendingEvents + 1
            /\ sinceFirst' = IF pendingEvents = 0 THEN 0 ELSE sinceFirst
            /\ sinceLast' = 0
       ELSE UNCHANGED <<broadcastScheduled, chanMaxDeadline, chanMovingDeadline,
                        pendingEvents, sinceFirst, sinceLast>>
    /\ UNCHANGED <<proxyBroadcastEventCount, broadcastUpdate, lastTrigger, coalesced, waited, idle>>
    /\ DispatcherFrame

\* the body of case message := <-subChannel
Coalesce(psubMessage) ==
    /\ IF isDeltaUpdate(psubMessage) \/ psubMessage.AnnouncementType = ScheduleProxyBroadcast
       THEN /\ pendingEvents < MaxEvents
            /\ broadcastScheduled \/ proxyBroadcastEventCount < MaxBroadcasts
            /\ broadcastScheduled' = TRUE
            /\ chanMaxDeadline' = RearmMaxDeadline(broadcastScheduled)
            /\ chanMovingDeadline' = RearmMovingDeadline(broadcastScheduled)
            /\ pendingEvents' = pendingEvents + 1
            /\ sinceFirst' = IF pendingEvents = 0 THEN 0 ELSE sinceFirst
            /\ sinceLast' = 0
       ELSE UNCHANGED <<broadcastScheduled, chanMaxDeadline, chanMovingDeadline,
                        pendingEvents, sinceFirst, sinceLast>>
    /\ UNCHANGED <<proxyBroadcastEventCount, broadcastUpdate, lastTrigger, coalesced, waited, idle>>
    /\ DispatcherFrame

\* case message := <-subChannel, for an event of any publisher
DispatchEvent(psubMessage) ==
    /\ Coalesce(psubMessage)
    /\ UNCHANGED backgroundVars

\* case message := <-subChannel, for the oldest event of the dispatcher's sink
ReceiveEvent ==
    /\ subChannel # <<>>
    /\ Coalesce(Head(subChannel))
    /\ subChannel' = Tail(subChannel)
    /\ UNCHANGED <<podUIDToCN, certificates, handler, podDeleteSubscription,
                   scheduleRequests, podEvents, unreleased, handled, builderVars>>

\* variant: the max deadline stays armed after a proxy-broadcast
ResetTimersKeepMax ==
    [moving |-> NoTimer, max |-> chanMaxDeadline]

\* the timer channels after a proxy-broadcast has been published
ResetTimers ==
    [moving |-> NoTimer, max |-> NoTimer]

\* variant: the broadcast stays scheduled after its publication
BroadcastEnvoyUpdateStaysScheduled(trigger) ==
    /\ PublishProxyBroadcast
    /\ lastTrigger' = trigger
    /\ coalesced' = pendingEvents
    /\ waited' = sinceFirst
    /\ idle' = sinceLast
    /\ proxyBroadcastEventCount' = proxyBroadcastEventCount + 1
    /\ broadcastScheduled' = broadcastScheduled
    /\ chanMovingDeadline' = ResetTimers.moving
    /\ chanMaxDeadline' = ResetTimers.max
    /\ pendingEvents' = 0
    /\ sinceFirst' = 0
    /\ sinceLast' = 0
    /\ UNCHANGED backgroundVars
    /\ DispatcherFrame

\* the publication of a proxy-broadcast by either timer
BroadcastEnvoyUpdate(trigger) ==
    /\ PublishProxyBroadcast
    /\ lastTrigger' = trigger
    /\ coalesced' = pendingEvents
    /\ waited' = sinceFirst
    /\ idle' = sinceLast
    /\ proxyBroadcastEventCount' = proxyBroadcastEventCount + 1
    /\ broadcastScheduled' = FALSE
    /\ chanMovingDeadline' = ResetTimers.moving
    /\ chanMaxDeadline' = ResetTimers.max
    /\ pendingEvents' = 0
    /\ sinceFirst' = 0
    /\ sinceLast' = 0
    /\ UNCHANGED backgroundVars
    /\ DispatcherFrame

\* case <-chanMovingDeadline
MovingDeadlineTrigger ==
    /\ chanMovingDeadline = 0
    /\ BroadcastEnvoyUpdate("chanMovingDeadline")

\* case <-chanMaxDeadline
MaxDeadlineTrigger ==
    /\ chanMaxDeadline = 0
    /\ BroadcastEnvoyUpdate("chanMaxDeadline")

CountDown(timer) == IF timer = NoTimer THEN NoTimer ELSE timer - 1

\* one second passes; a ready timer is served by the dispatcher before the next
Tick ==
    /\ chanMovingDeadline # 0
    /\ chanMaxDeadline # 0
    /\ chanMovingDeadline # NoTimer \/ chanMaxDeadline # NoTimer \/ pendingEvents > 0
    /\ sinceFirst <= maxBroadcastDeadlineTime
    /\ chanMovingDeadline' = CountDown(chanMovingDeadline)
    /\ chanMaxDeadline' = CountDown(chanMaxDeadline)
    /\ sinceFirst' = IF pendingEvents > 0 THEN sinceFirst + 1 ELSE sinceFirst
    /\ sinceLast' = IF pendingEvents > 0 THEN sinceLast + 1 ELSE sinceLast
    /\ UNCHANGED <<broadcastScheduled, proxyBroadcastEventCount, pendingEvents, broadcastUpdate,
                   lastTrigger, coalesced, waited, idle>>
    /\ UNCHANGED backgroundVars
    /\ DispatcherFrame

(***************************************************************************)
(* Certificate-release handler: pkg/envoy/registry/announcement_handlers.go *)
(***************************************************************************)
\* events the informers publish in one exploration
MaxPodEvents == 2

\* the pods that get a proxy of the mesh, and all pods
MeshPods == {"pod1", "pod2"}
PodUIDs == MeshPods \cup {"pod3"}

\* no entry of the index
NoCN == <<>>

\* the common name of the certificate issued for the proxy of the pod
PodCN(uid) ==
    <<uid, DomainDelimiter, "sidecar", DomainDelimiter, "sa1", DomainDelimiter, "ns">>

IngressAdded == <<"ingress", "added">>

\* the events the informers publish: the deletion of a pod of the mesh and
\* of another pod, a pod-deleted event that carries no pod, and an event of
\* another topic that carries a pod of the mesh
InformerEvents ==
    {PubSubMessage(PodDeleted, uid, "nil") : uid \in PodUIDs \cup {"nil"}}
      \cup {PubSubMessage(IngressAdded, "pod1", "nil")}

\* the request for a proxy-broadcast the handler publishes
ScheduleProxyBroadcastMessage == PubSubMessage(ScheduleProxyBroadcast, "nil", "nil")

\* psubMessage.OldObj.(*v1.Pod)
IsPod(obj) == obj \in PodUIDs

\* pr.podUIDToCN.Load(podUID)
Load(podUID) == [ok |-> podUIDToCN[podUID] # NoCN, value |-> podUIDToCN[podUID]]

ReleaseInit ==
    /\ podUIDToCN = [uid \in PodUIDs |-> NoCN]
    /\ certificates = {}
    /\ handler = "new"
    /\ podDeleteSubscription = <<>>
    /\ subChannel = <<>>
    /\ scheduleRequests = 0
    /\ podEvents = 0
    /\ unreleased = [uid \in PodUIDs |-> FALSE]
    /\ handled = 0

\* what the handler and the informers leave alone
ReleaseFrame == UNCHANGED <<streamVars, dispatcherVars, builderVars>>

\* a certificate is issued for the proxy of the pod, and the proxy is
\* registered with its pod metadata: the registry records the pod's UID
RegisterProxyWithPod(uid) ==
    /\ podUIDToCN[uid] = NoCN
    /\ podUIDToCN' = [podUIDToCN EXCEPT ![uid] = PodCN(uid)]
    /\ certificates' = certificates \cup {PodCN(uid)}
    /\ UNCHANGED <<handler, podDeleteSubscription, subChannel, scheduleRequests,
                   podEvents, unreleased, handled>>
    /\ ReleaseFrame

\* ReleaseCertificateHandler: subscribes to pod-deleted and starts the handler
ReleaseCertificateHandler ==
    /\ handler = "new"
    /\ handler' = "running"
    /\ UNCHANGED <<podUIDToCN, certificates, podDeleteSubscription, subChannel,
                   scheduleRequests, podEvents, unreleased, handled>>
    /\ ReleaseFrame

\* case <-stop
StopHandler ==
    /\ handler = "running"
    /\ handler' = "stopped"
    /\ UNCHANGED <<podUIDToCN, certificates, podDeleteSubscription, subChannel,
                   scheduleRequests, podEvents, unreleased, handled>>
    /\ ReleaseFrame

\* events.Publish by an informer: the event is delivered to the sink of the
\* handler, if it is subscribed and the topic is pod-deleted, and to the
\* sink of the dispatcher
PublishEvent(psubMessage) ==
    /\ podEvents < MaxPodEvents
    /\ podEvents' = podEvents + 1
    /\ podDeleteSubscription' =
          IF handler # "new" /\ psubMessage.AnnouncementType = PodDeleted
          THEN SinkPut(podDeleteSubscription, psubMessage)
          ELSE podDeleteSubscription
    /\ subChannel' = SinkPut(subChannel, psubMessage)
    /\ unreleased' =
          IF /\ handler = "running"
             /\ psubMessage.AnnouncementType = PodDeleted
             /\ IsPod(psubMessage.OldObj)
             /\ Load(psubMessage.OldObj).ok
          THEN [unreleased EXCEPT ![psubMessage.OldObj] = TRUE]
          ELSE unreleased
    /\ UNCHANGED <<podUIDToCN, certificates, handler, scheduleRequests, handled>>
    /\ ReleaseFrame

\* variant: the certificate is released, no proxy-broadcast is requested
HandlePodDeletedSilent ==
    /\ handler = "running"
    /\ podDeleteSubscription # <<>>
    /\ podDeleteSubscription' = Tail(podDeleteSubscription)
    /\ handled' = handled + 1
    /\ LET psubMessage == Head(podDeleteSubscription)
           podUID == psubMessage.OldObj
       IN IF IsPod(podUID) /\ Load(podUID).ok
          THEN /\ certificates' = certificates \ {Load(podUID).value}
               /\ unreleased' = [unreleased EXCEPT ![podUID] = FALSE]
               /\ UNCHANGED <<subChannel, scheduleRequests>>
          ELSE UNCHANGED <<certificates, subChannel, scheduleRequests, unreleased>>
    /\ UNCHANGED <<podUIDToCN, handler, podEvents>>
    /\ ReleaseFrame

\* variant: the certificate of a pod the registry has no record of is
\* released by the common name its proxy would have
HandlePodDeletedUnrecorded ==
    /\ handler = "running"
    /\ podDeleteSubscription # <<>>
    /\ podDeleteSubscription' = Tail(podDeleteSubscription)
    /\ handled' = handled + 1
    /\ LET psubMessage == Head(podDeleteSubscription)
           podUID == psubMessage.OldObj
       IN IF IsPod(podUID)
          THEN /\ certificates' = certificates \ {PodCN(podUID)}
               /\ subChannel' = SinkPut(subChannel, ScheduleProxyBroadcastMessage)
               /\ scheduleRequests' = scheduleRequests + 1
               /\ unreleased' = [unreleased EXCEPT ![podUID] = FALSE]
          ELSE UNCHANGED <<certificates, subChannel, scheduleRequests, unreleased>>
    /\ UNCHANGED <<podUIDToCN, handler, podEvents>>
    /\ ReleaseFrame

\* case podDeletedMsg := <-podDeleteSubscription
HandlePodDeleted ==
    /\ handler = "running"
    /\ podDeleteSubscription # <<>>
    /\ podDeleteSubscription' = Tail(podDeleteSubscription)
    /\ handled' = handled + 1
    /\ LET psubMessage == Head(podDeleteSubscription)
           podUID == psubMessage.OldObj
       IN IF IsPod(podUID) /\ Load(podUID).ok
          THEN /\ certificates' = certificates \ {Load(podUID).value}
               /\ subChannel' = SinkPut(subChannel, ScheduleProxyBroadcastMessage)
               /\ scheduleRequests' = scheduleRequests + 1
               /\ unreleased' = [unreleased EXCEPT ![podUID] = FALSE]
          ELSE UNCHANGED <<certificates, subChannel, scheduleRequests, unreleased>>
    /\ UNCHANGED <<podUIDToCN, handler, podEvents>>
    /\ ReleaseFrame

(***************************************************************************)
(* CDS response builder: pkg/envoy/cds/response.go.                        *)
(***************************************************************************)
\* clusters NewResponse collects for one proxy
MaxClusters == 4

ClusterNames == {"c1", "c2", "c3"}

\* what distinguishes two clusters of one name
ClusterConfigs == {"v1", "v2"}

Cluster(name, config) == [Name |-> name, config |-> config]

Clusters == {Cluster(name, config) : name \in ClusterNames, config \in ClusterConfigs}

\* the lists of clusters NewResponse may hand to removeDups
ClusterLists == UNION {[1..n -> Clusters] : n \in 0..MaxClusters}

\* variant: the name of an added cluster is not recorded
AddClusterUnrecorded(acc, cluster) ==
    IF cluster.Name \in acc.alreadyAdded
    THEN [acc EXCEPT !.logged = @ + 1]
    ELSE [acc EXCEPT !.cdsResources = Append(@, cluster)]

\* the body of the loop of removeDups
AddCluster(acc, cluster) ==
    IF cluster.Name \in acc.alreadyAdded
    THEN [acc EXCEPT !.logged = @ + 1]
    ELSE [acc EXCEPT !.alreadyAdded = @ \cup {cluster.Name},
                     !.cdsResources = Append(@, cluster)]

\* for _, cluster := range clusters
RECURSIVE RangeClusters(_, _)
RangeClusters(list, acc) ==
    IF list = <<>> THEN acc
    ELSE RangeClusters(Tail(list), AddCluster(acc, Head(list)))

\* removeDups: the resources returned and the duplicates logged
removeDups(list) ==
    RangeClusters(list, [alreadyAdded |-> {}, cdsResources |-> <<>>, logged |-> 0])

\* no response is being built
BuilderInit ==
    /\ cdsClusters = <<>>
    /\ cdsResources = <<>>
    /\ duplicateClusters = 0
    /\ cdsBuilt = TRUE

\* NewResponse has collected the clusters of a proxy
CollectedInit ==
    /\ cdsClusters \in ClusterLists
    /\ cdsResources = <<>>
    /\ duplicateClusters = 0
    /\ cdsBuilt = FALSE

\* return removeDups(clusters), nil
ReturnClusters ==
    /\ ~cdsBuilt
    /\ cdsResources' = removeDups(cdsClusters).cdsResources
    /\ duplicateClusters' = removeDups(cdsClusters).logged
    /\ cdsBuilt' = TRUE
    /\ UNCHANGED <<cdsClusters, streamVars, dispatcherVars, releaseVars>>

(***************************************************************************)
(* Specifications.                                                         *)
(***************************************************************************)
Init ==
    /\ StreamInit
    /\ maxDataPlaneConnections = 0
    /\ jobBudget = MaxJobs
    /\ DispatcherInit
    /\ ReleaseInit
    /\ BuilderInit

\* the start of stream p, with the pods the lookup may find
StartNext(p, pods) ==
    \/ \E clientValid \in BOOLEAN, cn \in {StreamCN(p), MalformedCN} : StreamStart(p, clientValid, cn)
    \/ \E pod \in pods : InitProxy(p, pod)

\* the end of stream p
ExitNext(p) ==
    \/ CancelStream(p)
    \/ ReceiveFailed(p)
    \/ ExitCancelled(p)
    \/ ExitQuit(p)
    \/ ExitClosed(p)

WorkerNext ==
    \E p \in Streams, outcome \in JobOutcomes : RunJob(p, outcome)

\* the xDS protocol of one stream: proxy 1 connects and sends any requests
Next ==
    \/ StartNext(1, {NoPod, PodWith("sa2")})
    \/ \E req \in Requests(1) : HandleRequest(1, req)
    \/ JobCompleted(1)
    \/ WorkerNext

Spec == Init /\ [][Next]_vars

\* the first requests of a stream: no version, no nonce
FirstRequests(types) ==
    [typeUrl : types, versionInfo : {<<>>}, responseNonce : {EmptyNonce},
     resourceNames : {<<"A">>}, errorDetail : {FALSE}]

\* control-plane pushes: proxy 1 connects and sends first requests; the
\* dispatcher publishes proxy-broadcasts, the certificate provider rotates
PushInit ==
    /\ StreamInit
    /\ maxDataPlaneConnections = 0
    /\ jobBudget = MaxPushJobs
    /\ DispatcherInit
    /\ ReleaseInit
    /\ BuilderInit

PushNext ==
    \/ StartNext(1, {NoPod})
    \/ \E req \in FirstRequests({TypeCDS, TypeLDS, TypeSDS}) : HandleRequest(1, req)
    \/ HandleBroadcast(1)
    \/ HandleCertificateRotated(1)
    \/ JobCompleted(1)
    \/ WorkerNext
    \/ ProxyBroadcastPublished
    \/ \E cn \in RotatedCNs : CertificateRotated(cn)

PushSpec == PushInit /\ [][PushNext]_vars

\* the same with the scheduling of the work queue: a worker that can take a
\* queued job does so, and a main loop whose completion signal has fired goes on
FairPushSpec ==
    /\ PushInit
    /\ [][PushNext]_vars
    /\ WF_vars(WorkerNext)
    /\ WF_vars(JobCompleted(1))

\* proxy-broadcasts to several proxies: every proxy connects, proxy 1 sends
\* first requests for CDS and LDS and the others send none; the dispatcher
\* publishes proxy-broadcasts
BroadcastNext ==
    \/ \E p \in Streams : StreamStart(p, TRUE, StreamCN(p))
    \/ \E p \in Streams : InitProxy(p, NoPod)
    \/ \E req \in FirstRequests({TypeCDS, TypeLDS}) : HandleRequest(1, req)
    \/ \E p \in Streams : HandleBroadcast(p)
    \/ JobCompleted(1)
    \/ WorkerNext
    \/ ProxyBroadcastPublished

BroadcastSpec == PushInit /\ [][BroadcastNext]_vars

\* the life of the streams: every proxy connects and its stream ends by any cause
LifecycleInit ==
    /\ StreamInit
    /\ jobBudget = MaxJobs
    /\ DispatcherInit
    /\ ReleaseInit
    /\ BuilderInit

LifecycleNext ==
    \/ \E p \in Streams : StartNext(p, Pods)
    \/ StreamStart(1, TRUE, GatewayCN(1))
    \/ \E p \in Streams : ExitNext(p)

LifecycleSpec == LifecycleInit /\ [][LifecycleNext]_vars

\* the dispatcher alone, with the clock
DispatcherNext ==
    \/ \E type \in DispatcherTopics, old \in Objects, new \in Objects :
           DispatchEvent(PubSubMessage(type, old, new))
    \/ MovingDeadlineTrigger
    \/ MaxDeadlineTrigger
    \/ Tick

DispatcherSpec == Init /\ [][DispatcherNext]_vars

\* the certificate-release handler with the informers: proxies of pods are
\* registered, the handler is started and stopped, events are published
ReleaseNext ==
    \/ \E uid \in MeshPods : RegisterProxyWithPod(uid)
    \/ ReleaseCertificateHandler
    \/ StopHandler
    \/ \E psubMessage \in InformerEvents : PublishEvent(psubMessage)
    \/ HandlePodDeleted

ReleaseSpec == Init /\ [][ReleaseNext]_vars

\* the same with the scheduling of the handler: a handler that is in its
\* select with an event in its sink takes the event
FairReleaseSpec == Init /\ [][ReleaseNext]_vars /\ WF_vars(HandlePodDeleted)

\* the handler and the dispatcher on the event bus, with the clock.  A window
\* reaches its hard deadline after maxBroadcastDeadlineTime seconds of events
\* less than maxGraceDeadlineTime apart, which takes more events than the
\* informers and the handler publish here: case <-chanMaxDeadline is never
\* ready, and DispatcherSpec has it
CoalesceNext ==
    \/ ReleaseNext
    \/ ReceiveEvent
    \/ MovingDeadlineTrigger
    \/ Tick

CoalesceSpec == Init /\ [][CoalesceNext]_vars

\* two proxies on their streams: the first with requests of a wildcard and of
\* another type URI, the other with first requests of the wildcard type
Peers == {1, NumStreams}

PeerTypes == {TypeCDS, TypeEDS}

\* a first request, a request of a reconnecting proxy, and requests with the
\* last sent nonce for the resources sent and for more
PeerRequests(p) ==
    UNION {RequestsOf(t, {<<>>}, {EmptyNonce}, {<<"A">>, <<"A", "B">>}, {FALSE})
             \cup RequestsOf(t, {MaxVersionInfo}, {ForeignNonce}, {<<"A">>}, {FALSE})
             \cup RequestsOf(t, {LastVersionInfo(p, t)}, {proxy[p].lastSentNonce[t]} \ {EmptyNonce},
                             {<<"A">>, <<"A", "B">>}, {FALSE})
           : t \in PeerTypes}

PeersNext ==
    \/ \E p \in Peers : StartNext(p, {NoPod})
    \/ \E req \in PeerRequests(1) : HandleRequest(1, req)
    \/ \E req \in FirstRequests({TypeCDS}) : HandleRequest(NumStreams, req)
    \/ \E p \in Peers : JobCompleted(p)
    \/ WorkerNext

PeersSpec == PushInit /\ [][PeersNext]_vars

\* cancellation: proxy 1 connects and sends first requests, the dispatcher
\* publishes proxy-broadcasts, and the stream ends by any cause
CancelNext ==
    \/ StartNext(1, {NoPod})
    \/ \E req \in FirstRequests({TypeCDS}) : HandleRequest(1, req)
    \/ HandleBroadcast(1)
    \/ JobCompleted(1)
    \/ WorkerNext
    \/ ProxyBroadcastPublished
    \/ ExitNext(1)

\* the same with the scheduling of the work queue and of the main loop: a
\* worker that can take a queued job does so, a main loop whose completion
\* signal has fired goes on, and a select that finds ctx.Done() ready again
\* and again takes that case
FairCancelSpec ==
    /\ Init
    /\ [][CancelNext]_vars
    /\ WF_vars(WorkerNext)
    /\ WF_vars(JobCompleted(1))
    /\ SF_vars(ExitCancelled(1))

\* the CDS builder on the clusters collected for a proxy
BuilderSpecInit ==
    /\ StreamInit
    /\ maxDataPlaneConnections = 0
    /\ jobBudget = MaxJobs
    /\ DispatcherInit
    /\ ReleaseInit
    /\ CollectedInit

BuilderNext == ReturnClusters

BuilderSpec == BuilderSpecInit /\ [][BuilderNext]_vars

(***************************************************************************)
(* Properties of the stream's life (LifecycleSpec).                        *)
(***************************************************************************)
\* stream p leaves the main loop in this step
Exits(p) == pc[p] = "loop" /\ pc'[p] = "done"

\* C2: a stream that has registered its proxy unregisters it exactly once when
\* it exits, by cancellation, by the quit signal or by the closed request
\* channel: the exit removes this proxy and no other, the connected-proxy count
\* goes down by exactly one, the count goes down in no other step, and a
\* stream that is done is not in the registry
C2_ExitUnregistersOnce ==
    [][/\ \A p \in Streams :
            Exits(p) => /\ p \in connectedProxies
                        /\ connectedProxies' = connectedProxies \ {p}
                        /\ GetConnectedProxyCount' = GetConnectedProxyCount - 1
       /\ \A p \in Streams : pc'[p] = "done" => p \notin connectedProxies'
       /\ GetConnectedProxyCount' < GetConnectedProxyCount
            => \E p \in Streams : Exits(p)]_vars

\* one stream has exited by cancellation, another by the quit signal or the
\* closed request channel, and the registry is empty again
C2_Witness ==
    /\ \E p \in Streams : exitCause[p] = "cancelled"
    /\ \E p \in Streams : exitCause[p] \in {"errGrpcClosed", "quit"}
    /\ connectedProxies = {}

(***************************************************************************)
(* Properties of the dispatcher (DispatcherSpec).                          *)
(***************************************************************************)
\* a proxy-broadcast is published in this step
Publishes == proxyBroadcastEventCount' # proxyBroadcastEventCount

\* C3: one proxy-broadcast per coalescing window, whichever timer fires first:
\* a publication happens in an open window that holds a qualifying event,
\* counts one, closes the window and disarms both timers, so that no timer is
\* armed outside a window to publish a second time
C3_OneBroadcastPerWindow ==
    [][/\ Publishes => /\ broadcastScheduled
                       /\ pendingEvents >= 1
                       /\ proxyBroadcastEventCount' = proxyBroadcastEventCount + 1
                       /\ ~broadcastScheduled'
       /\ ~broadcastScheduled' => /\ chanMovingDeadline' = NoTimer
                                  /\ chanMaxDeadline' = NoTimer
                                  /\ pendingEvents' = 0]_vars

\* the grace timer has published while the hard timer was armed, and the
\* window is closed with no timer left
C3_Witness ==
    /\ lastTrigger = "chanMovingDeadline"
    /\ proxyBroadcastEventCount >= 1
    /\ waited < maxBroadcastDeadlineTime
    /\ ~broadcastScheduled
    /\ chanMaxDeadline = NoTimer

\* C4: qualifying events that each arrive within the grace period of the
\* previous one, all before the hard deadline, are answered by one
\* proxy-broadcast: no event publishes, the events wait no longer than the
\* grace period after the latest of them, and a publication before the hard
\* deadline comes exactly the grace period after the latest event, counts one
\* and covers all the events of the burst
C4_BurstWithinGrace ==
    [][/\ pendingEvents' > pendingEvents => ~Publishes
       /\ pendingEvents >= 1 => sinceLast <= maxGraceDeadlineTime
       /\ (Publishes /\ sinceFirst < maxBroadcastDeadlineTime)
            => /\ sinceLast = maxGraceDeadlineTime
               /\ proxyBroadcastEventCount' = proxyBroadcastEventCount + 1
               /\ pendingEvents' = 0]_vars

\* a burst of three events or more, quiet for the grace period before the
\* hard deadline, has been answered by the first proxy-broadcast
C4_Witness ==
    /\ proxyBroadcastEventCount = 1
    /\ coalesced >= 3
    /\ idle = maxGraceDeadlineTime
    /\ waited < maxBroadcastDeadlineTime
    /\ lastTrigger = "chanMovingDeadline"

\* C5: under continuous churn the proxy-broadcast is published when the hard
\* deadline, counted from the first event, expires: no qualifying event waits
\* longer than the hard deadline, and a publication that comes before the
\* grace period after the latest event is the hard timer's, exactly the hard
\* deadline after the first event, counts one and covers all pending events
C5_HardDeadline ==
    [][/\ pendingEvents >= 1 => sinceFirst <= maxBroadcastDeadlineTime
       /\ (Publishes /\ sinceLast < maxGraceDeadlineTime)
            => /\ sinceFirst = maxBroadcastDeadlineTime
               /\ lastTrigger' = "chanMaxDeadline"
               /\ proxyBroadcastEventCount' = proxyBroadcastEventCount + 1
               /\ pendingEvents' = 0]_vars

\* events kept arriving until the hard deadline, and the hard timer has
\* published the one proxy-broadcast
C5_Witness ==
    /\ proxyBroadcastEventCount = 1
    /\ lastTrigger = "chanMaxDeadline"
    /\ waited = maxBroadcastDeadlineTime
    /\ idle < maxGraceDeadlineTime
    /\ coalesced >= 6

(***************************************************************************)
(* Properties of the xDS protocol of one stream (Spec).                    *)
(***************************************************************************)
\* the versions carried by a log of responses
Versions(log) == [i \in 1..Len(log) |-> ParseUint(log[i].versionInfo).val]

StrictlyIncreasing(seq) == \A i, j \in 1..Len(seq) : i < j => seq[i] < seq[j]

\* C1: for every proxy and type URI the version_info values of the responses
\* written on the stream are strictly increasing, and last-sent-version never
\* decreases, whatever requests are handled and jobs are run
C1_VersionsIncrease ==
    [][\A p \in Streams, t \in XDSTypes :
          /\ proxy'[p].lastSentVersion[t] >= proxy[p].lastSentVersion[t]
          /\ StrictlyIncreasing(Versions(emitted'[p][t]))]_vars

\* the request that acknowledges the last response of type t: its nonce, its
\* version and, in the order of the list names, its resources
AckRequest(px, t, names) ==
    DiscoveryRequest(t, FormatUint(px.lastSentVersion[t]), px.lastSentNonce[t], names, FALSE)

\* the handler of stream p has enqueued no job and waits for none
NoResponse(p) ==
    /\ workqueue'[p] = workqueue[p]
    /\ jobsAdded'[p] = jobsAdded[p]
    /\ done'[p] = done[p]
    /\ pc'[p] = pc[p]

\* the handler of stream p has enqueued exactly one job, for the type of req
OneResponseTriggered(p, req) ==
    /\ workqueue[p] = NoJob
    /\ workqueue'[p] = newJob(p, <<req.typeUrl>>, req)
    /\ jobsAdded'[p] = jobsAdded[p] + 1
    /\ pc'[p] = "await"

\* C8, as stated: in any reachable per-type state a request without error
\* detail that carries the last sent nonce, the last sent version and the last
\* sent resources gets no response and changes last-applied-version only
C8_IdempotentAck ==
    [][\A t \in XDSTypes, names \in NameLists :
          LET px == proxy[1]
              req == AckRequest(px, t, names)
              acked == [px EXCEPT !.lastAppliedVersion[t] = px.lastSentVersion[t]]
          IN getRequestedResourceNamesSet(req) = px.lastSentResources[t]
               => /\ ~respondToRequest(px, req).reply
                  /\ respondToRequest(px, req).proxy = acked
                  /\ HandleRequest(1, req) => (NoResponse(1) /\ proxy'[1] = acked)]_vars

\* C8, amended: once a response of type t has been sent, such a request gets
\* no response, leaves last-sent-version, last-sent-nonce and
\* last-sent-resources alone, sets last-applied-version to its version and,
\* for a type that is not wildcard, subscribed-resources to its resources
C8_AckAfterResponse ==
    [][\A t \in XDSTypes, names \in NameLists :
          LET px == proxy[1]
              req == AckRequest(px, t, names)
              acked == [px EXCEPT !.lastAppliedVersion[t] = px.lastSentVersion[t],
                                  !.subscribedResources[t] =
                                      IF IsWildcardTypeURI(t) THEN @
                                      ELSE px.lastSentResources[t]]
          IN (/\ px.lastSentNonce[t] # EmptyNonce
              /\ getRequestedResourceNamesSet(req) = px.lastSentResources[t])
               => /\ ~respondToRequest(px, req).reply
                  /\ respondToRequest(px, req).proxy = acked
                  /\ HandleRequest(1, req) => (NoResponse(1) /\ proxy'[1] = acked)]_vars

\* the one response of type RDS has been acknowledged: the subscription to A
\* and B is now the resource A that was sent
C8_Witness ==
    /\ pc[1] = "loop"
    /\ jobsAdded[1] = 1
    /\ proxyReconnectCount = 0
    /\ proxy[1].lastSentNonce[TypeRDS] # EmptyNonce
    /\ proxy[1].lastSentVersion[TypeRDS] = 1
    /\ proxy[1].lastAppliedVersion[TypeRDS] = 1
    /\ proxy[1].lastSentResources[TypeRDS] = {"A"}
    /\ proxy[1].subscribedResources[TypeRDS] = {"A"}

\* C9: a request without error detail with a nonce and version V, while no
\* nonce was sent for its type, sets last-sent-version and
\* last-applied-version to V and subscribed-resources to its resources and
\* triggers exactly one response, and that response carries version V + 1
C9_ReconnectAdoption ==
    [][/\ \A req \in RegularRequests(1) :
            LET px == proxy[1]
                t == req.typeUrl
                V == parseRequestVersion(req).val
            IN (/\ req.responseNonce # EmptyNonce
                /\ px.lastSentNonce[t] = EmptyNonce
                /\ HandleRequest(1, req))
                 => /\ proxy'[1] = [px EXCEPT !.lastSentVersion[t] = V,
                                              !.lastAppliedVersion[t] = V,
                                              !.subscribedResources[t] =
                                                  getRequestedResourceNamesSet(req)]
                    /\ OneResponseTriggered(1, req)
       /\ \A t \in XDSTypes :
            LET V == proxy[1].lastSentVersion[t] IN
            (/\ workqueue[1].typeURIs = <<t>>
             /\ proxyReconnectCount > 0
             /\ proxy[1].lastSentNonce[t] = EmptyNonce
             /\ emitted'[1][t] # emitted[1][t])
              => emitted'[1][t] = Append(emitted[1][t],
                                         [versionInfo |-> FormatUint(V + 1),
                                          nonce |-> proxy'[1].lastSentNonce[t]])]_vars

\* the per-type state of a stream on which nothing was sent or adopted for t
Fresh(p, t) ==
    /\ proxy[p].lastSentVersion[t] = 0
    /\ proxy[p].lastSentNonce[t] = EmptyNonce
    /\ proxy[p].lastAppliedVersion[t] = 0
    /\ proxy[p].lastSentResources[t] = {}
    /\ emitted[p][t] = <<>>
    /\ proxyReconnectCount = 0

\* C10: on a fresh stream a request for a known type without version and
\* nonce triggers exactly one response; the response carries version_info 1
\* and a nonce; afterwards last-sent-version is 1, last-sent-nonce is the
\* nonce of the response and subscribed-resources are the request's resources
C10_FirstRequest ==
    [][\A t \in XDSTypes :
          /\ \A names \in NameLists :
                LET req == DiscoveryRequest(t, <<>>, EmptyNonce, names, FALSE) IN
                (Fresh(1, t) /\ HandleRequest(1, req))
                  => /\ OneResponseTriggered(1, req)
                     /\ proxy'[1] = [proxy[1] EXCEPT !.subscribedResources[t] =
                                                         getRequestedResourceNamesSet(req)]
          /\ (Fresh(1, t) /\ workqueue[1].typeURIs = <<t>> /\ emitted'[1][t] # <<>>)
                => /\ Len(emitted'[1][t]) = 1
                   /\ emitted'[1][t][1].versionInfo = <<"1">>
                   /\ emitted'[1][t][1].nonce # EmptyNonce
                   /\ workqueue'[1] = NoJob
                   /\ proxy'[1].lastSentVersion[t] = 1
                   /\ proxy'[1].lastSentNonce[t] = emitted'[1][t][1].nonce
                   /\ proxy'[1].subscribedResources[t] = proxy[1].subscribedResources[t]]_vars

\* the first request for RDS, for A and B, has been answered
C10_Witness ==
    /\ proxyReconnectCount = 0
    /\ Len(emitted[1][TypeRDS]) = 1
    /\ emitted[1][TypeRDS][1].versionInfo = <<"1">>
    /\ proxy[1].lastSentVersion[TypeRDS] = 1
    /\ proxy[1].lastSentNonce[TypeRDS] = emitted[1][TypeRDS][1].nonce
    /\ proxy[1].lastSentNonce[TypeRDS] # EmptyNonce
    /\ proxy[1].subscribedResources[TypeRDS] = {"A", "B"}

(***************************************************************************)
(* Properties of the control-plane pushes (BroadcastSpec, PushSpec).       *)
(***************************************************************************)
\* stream p takes a proxy-broadcast from its sink in this step
TakesBroadcast(p) == Len(broadcastUpdate'[p]) < Len(broadcastUpdate[p])

\* a response of type CDS or LDS has been sent to the proxy
HasInitNonce(px) ==
    px.lastSentNonce[TypeCDS] # EmptyNonce \/ px.lastSentNonce[TypeLDS] # EmptyNonce

\* C6: of the proxies that take a published proxy-broadcast, those for which
\* a job is enqueued, for CDS, EDS, LDS and RDS, are those with a CDS or an
\* LDS nonce at that time; a proxy with neither is skipped, no job is
\* enqueued for it and its per-type state does not change
C6_BroadcastEligibility ==
    [][\A p \in Streams :
          TakesBroadcast(p)
            => /\ proxy'[p] = proxy[p]
               /\ IF HasInitNonce(proxy[p])
                  THEN /\ workqueue'[p] = newJob(p, <<TypeCDS, TypeEDS, TypeLDS, TypeRDS>>, NoRequest)
                       /\ jobsAdded'[p] = jobsAdded[p] + 1
                       /\ pc'[p] = "await"
                  ELSE /\ NoResponse(p)
                       /\ emitted'[p] = emitted[p]]_vars

\* a proxy-broadcast job is queued for one proxy, and another proxy, that has
\* not sent a request yet, has skipped a proxy-broadcast
C6_Witness ==
    \E p, q \in Streams :
        /\ workqueue[p].typeURIs = <<TypeCDS, TypeEDS, TypeLDS, TypeRDS>>
        /\ HasInitNonce(proxy[p])
        /\ pushSkipped[q]
        /\ proxy[q] = NewProxy
        /\ workqueue[q] = NoJob

\* C7: for a proxy without CDS and without LDS nonce neither a proxy-broadcast
\* nor a certificate-rotated event enqueues a job: a job enqueued for such a
\* proxy answers a request
C7_NoPushBeforeInit ==
    [][\A p \in Streams :
          (~HasInitNonce(proxy[p]) /\ jobsAdded'[p] > jobsAdded[p])
            => workqueue'[p].request # NoRequest.typeUrl]_vars

(***************************************************************************)
(* Properties of the requests that are dropped (Spec).                     *)
(***************************************************************************)
\* the main loop of stream p is ready to take a request
TakesRequests(p) == pc[p] = "loop" /\ ~quit[p]

\* the handler of stream p takes the request req, and every step in which
\* it does leaves every variable as it was: no job, no response, no change
\* of the proxy's state, the stream still in its loop
Dropped(p, req) ==
    /\ ENABLED HandleRequest(p, req)
    /\ ~ENABLED (HandleRequest(p, req) /\ vars' # vars)

\* the NACKs of type t: version and resources of any kind, and a nonce that
\* is empty, the last sent one or another one
Nacks(px, t) ==
    RequestsOf(t, {<<>>}, {EmptyNonce, ForeignNonce, px.lastSentNonce[t]}, {<<>>}, {TRUE})
    \cup
    RequestsOf(t, {MaxVersionInfo}, {EmptyNonce, ForeignNonce, px.lastSentNonce[t]},
               {<<"B", "A">>}, {TRUE})

\* C11: a request for a known type URI with error detail gets no response and
\* changes no per-type state, whatever its nonce (empty, the last sent one,
\* another one) and whatever the state of the proxy
C11_NackInert ==
    [](\A t \in XDSTypes : \A req \in Nacks(proxy[1], t) :
          /\ ~respondToRequest(proxy[1], req).reply
          /\ respondToRequest(proxy[1], req).proxy = proxy[1]
          /\ TakesRequests(1) => Dropped(1, req))

\* the stream takes requests after the one response of type LDS, which no
\* request has acknowledged: a NACK with its nonce is one of the NACKs dropped
C11_Witness ==
    /\ TakesRequests(1)
    /\ proxy[1].lastSentNonce[TypeLDS] # EmptyNonce
    /\ proxy[1].lastSentVersion[TypeLDS] = 1
    /\ proxy[1].lastAppliedVersion[TypeLDS] = 0
    /\ Len(emitted[1][TypeLDS]) = 1

\* the nonces of the responses written on stream p
NoncesSent(p) ==
    UNION {{emitted[p][t][i].nonce : i \in 1..Len(emitted[p][t])} : t \in XDSTypes}
      \cup {EmptyNonce}

\* the requests of type t without error detail whose nonce is neither empty
\* nor the last sent one of type t: the nonce of another control plane, of an
\* earlier response or of a response of another type
StaleRequests(p, t) ==
    RequestsOf(t, {<<>>, MaxVersionInfo},
               (NoncesSent(p) \cup {ForeignNonce}) \ {EmptyNonce, proxy[p].lastSentNonce[t]},
               {<<>>, <<"B", "A">>}, {FALSE})

\* C14: a request without error detail whose nonce is not empty and differs
\* from a non-empty last-sent-nonce of its type URI is dropped: no response
\* and no change of any per-type state, last-applied-version and
\* subscribed-resources included
C14_StaleNonceDropped ==
    [](\A t \in XDSTypes : \A req \in StaleRequests(1, t) :
          proxy[1].lastSentNonce[t] # EmptyNonce
            => /\ respondToRequest(proxy[1], req) = Decision(FALSE, proxy[1], 0)
               /\ TakesRequests(1) => Dropped(1, req))

\* the stream takes requests after the one response of type SDS: nothing is
\* applied, the subscription is the first request's, and a request with
\* another nonce, the largest version and other names is one of those dropped
C14_Witness ==
    /\ TakesRequests(1)
    /\ proxy[1].lastSentNonce[TypeSDS] # EmptyNonce
    /\ proxy[1].lastSentNonce[TypeSDS] # ForeignNonce
    /\ proxy[1].lastAppliedVersion[TypeSDS] = 0
    /\ proxy[1].subscribedResources[TypeSDS] = {"A"}
    /\ StaleRequests(1, TypeSDS) # {}

\* version_info strings that are no unsigned decimal of 64 bits: out of
\* range, with a letter, with a sign
NotUnsignedDecimals == BadVersionInfos \cup {<<"-", "1">>}

\* the requests with an unknown type URL or the reserved empty one, and the
\* requests for a known type whose version_info does not parse, with a nonce
\* that is empty, another control plane's or the last sent one
Malformed(px) ==
    UNION {RequestsOf(t, {<<>>, <<"1">>}, {EmptyNonce, ForeignNonce}, {<<"A">>}, {FALSE})
           : t \in {TypeUnknown, TypeEmptyURI}}
    \cup
    UNION {RequestsOf(t, NotUnsignedDecimals,
                      {EmptyNonce, ForeignNonce, px.lastSentNonce[t]}, {<<"A">>}, {FALSE})
           : t \in XDSTypes}

\* C15: a request whose type URL is unknown or the reserved empty one, or
\* whose version_info is no unsigned decimal, is dropped without a response
\* and without any change of state, and the stream stays in its loop; this
\* comes before the nonce is looked at, so the request is dropped with the
\* empty nonce of a first request too
C15_MalformedDropped ==
    [](\A req \in Malformed(proxy[1]) :
          /\ respondToRequest(proxy[1], req) = Decision(FALSE, proxy[1], 0)
          /\ TakesRequests(1) => Dropped(1, req))

\* the stream is open and takes requests with nothing sent, enqueued or
\* subscribed: a first request that is malformed has left no trace
C15_Witness ==
    /\ TakesRequests(1)
    /\ exitCause[1] = "none"
    /\ 1 \in connectedProxies
    /\ proxy[1] = NewProxy
    /\ jobsAdded[1] = 0
    /\ workqueue[1] = NoJob

(***************************************************************************)
(* Properties of the requests with the last sent nonce (Spec).             *)
(***************************************************************************)
\* the handler of stream p takes the request req, and every step in which it
\* does enqueues no job, writes no response and leaves the proxy with the
\* record px
HandledWithoutResponse(p, req, px) ==
    /\ ENABLED HandleRequest(p, req)
    /\ ~ENABLED (/\ HandleRequest(p, req)
                 /\ ~(/\ NoResponse(p)
                      /\ emitted' = emitted
                      /\ proxy' = [proxy EXCEPT ![p] = px]))

\* the version_info values that parse, the empty one included
VersionInfos == {<<>>, <<"1">>, MaxVersionInfo}

\* the requests of type t that carry the last sent nonce of type t
MatchingRequests(px, t, errorDetails) ==
    RequestsOf(t, VersionInfos, {px.lastSentNonce[t]}, NameLists, errorDetails)

\* the record px with the version of req applied for its type
Applied(px, req) ==
    [px EXCEPT !.lastAppliedVersion[req.typeUrl] = parseRequestVersion(req).val]

\* C12, as stated: for CDS and LDS a request whose nonce equals
\* last-sent-nonce never triggers a response and sets last-applied-version to
\* its version, the same for every value of its resource names
C12_WildcardNonceMatch ==
    \A t \in {TypeCDS, TypeLDS} : \A req \in MatchingRequests(proxy[1], t, BOOLEAN) :
        TakesRequests(1)
          => /\ respondToRequest(proxy[1], req) = Decision(FALSE, Applied(proxy[1], req), 0)
             /\ HandledWithoutResponse(1, req, Applied(proxy[1], req))

\* C12, amended: for CDS and LDS, once a response of the type has been sent, a
\* request without error detail whose nonce equals last-sent-nonce never
\* triggers a response and changes last-applied-version only, to its version;
\* decision and resulting state are the same for every value of its resource
\* names
C12_WildcardAck ==
    [](\A t \in {TypeCDS, TypeLDS} : \A req \in MatchingRequests(proxy[1], t, {FALSE}) :
          proxy[1].lastSentNonce[t] # EmptyNonce
            => /\ respondToRequest(proxy[1], req) = Decision(FALSE, Applied(proxy[1], req), 0)
               /\ \A names \in NameLists :
                      respondToRequest(proxy[1], [req EXCEPT !.resourceNames = names])
                        = respondToRequest(proxy[1], req)
               /\ TakesRequests(1) => HandledWithoutResponse(1, req, Applied(proxy[1], req)))

\* the one response of type CDS has been acknowledged with the largest
\* version: it is recorded as applied, no job followed, and the subscription
\* is what the first request left
C12_Witness ==
    /\ TakesRequests(1)
    /\ jobsAdded[1] = 1
    /\ workqueue[1] = NoJob
    /\ Len(emitted[1][TypeCDS]) = 1
    /\ proxy[1].lastSentNonce[TypeCDS] # EmptyNonce
    /\ proxy[1].lastSentVersion[TypeCDS] = 1
    /\ proxy[1].lastAppliedVersion[TypeCDS] = MaxUint64
    /\ proxy[1].subscribedResources[TypeCDS] = {}

\* the handler of stream p takes the request req while a job may be enqueued,
\* and every step in which it does enqueues one job for the type of req and
\* leaves the proxy with the record px
HandledWithResponse(p, req, px) ==
    jobsAdded[p] < jobBudget
      => /\ ENABLED HandleRequest(p, req)
         /\ ~ENABLED (/\ HandleRequest(p, req)
                      /\ ~(/\ OneResponseTriggered(p, req)
                           /\ emitted' = emitted
                           /\ proxy' = [proxy EXCEPT ![p] = px]))

\* the response of type t the job of stream p writes for the proxy record px
ResponseFor(p, px, t) ==
    LET written == writeResponses(emitted[p], px, <<t>>, nonceCount[p])[t]
    IN written[Len(written)]

\* C13: for EDS, RDS and SDS, once a response of the type has been sent, a
\* request without error detail whose nonce equals last-sent-nonce sets
\* subscribed-resources to its resource names and triggers a response if and
\* only if the set of its names differs from last-sent-resources; the response
\* then has version last-sent-version + 1 and a nonce not used before
C13_NonWildcardNonceMatch ==
    \A t \in {TypeEDS, TypeRDS, TypeSDS} : \A req \in MatchingRequests(proxy[1], t, {FALSE}) :
        proxy[1].lastSentNonce[t] # EmptyNonce
          => LET px == proxy[1]
                 names == getRequestedResourceNamesSet(req)
                 decision == respondToRequest(px, req)
                 resubscribed == [Applied(px, req) EXCEPT !.subscribedResources[t] = names]
             IN /\ decision.proxy = resubscribed
                /\ decision.reply <=> names # px.lastSentResources[t]
                /\ decision.reply
                     => /\ ResponseFor(1, decision.proxy, t).versionInfo
                             = FormatUint(px.lastSentVersion[t] + 1)
                        /\ ResponseFor(1, decision.proxy, t).nonce \notin NoncesSent(1)
                        /\ TakesRequests(1) => HandledWithResponse(1, req, resubscribed)
                /\ (~decision.reply /\ TakesRequests(1))
                     => HandledWithoutResponse(1, req, resubscribed)

(***************************************************************************)
(* Properties of the jobs of a stream (PushSpec).                          *)
(***************************************************************************)
\* a job of stream p is in flight: queued, or run with its completion signal
\* not yet taken by the main loop
InFlight(p) == workqueue[p] # NoJob \/ done[p]

\* the main loop of stream p can take none of the cases of its select
LoopBlocked(p) ==
    /\ \A req \in FirstRequests(XDSTypes) : ~ENABLED HandleRequest(p, req)
    /\ ~ENABLED HandleBroadcast(p)
    /\ ~ENABLED HandleCertificateRotated(p)
    /\ ~ENABLED ExitCancelled(p)
    /\ ~ENABLED ExitQuit(p)
    /\ ~ENABLED ExitClosed(p)

\* C16: for one stream at most one job is in flight: while a job is queued or
\* its completion signal is not taken, the main loop waits and can take no
\* request, proxy-broadcast or certificate event; a job is enqueued only
\* when none is in flight; and the proxy's record is changed either by the
\* main loop, with no job in flight, or by the worker, while the loop waits
C16_OneJobInFlight ==
    /\ [](\A p \in Streams :
            /\ InFlight(p) => pc[p] = "await"
            /\ ~(workqueue[p] # NoJob /\ done[p])
            /\ pc[p] = "await" => LoopBlocked(p))
    /\ [][\A p \in Streams :
            /\ jobsAdded'[p] # jobsAdded[p]
                 => /\ ~InFlight(p)
                    /\ jobsAdded'[p] = jobsAdded[p] + 1
                    /\ workqueue'[p] # NoJob
                    /\ pc'[p] = "await"
            /\ (proxy'[p] # proxy[p] \/ emitted'[p] # emitted[p])
                 => \/ pc[p] = "loop" /\ ~InFlight(p)
                    \/ pc[p] = "await" /\ pc'[p] = "await" /\ workqueue[p] # NoJob
                         /\ workqueue'[p] = NoJob /\ done'[p]]_vars

\* the second job of the stream is queued while a proxy-broadcast and a
\* rotated certificate wait in the stream's sinks
C16_Witness ==
    /\ pc[1] = "await"
    /\ workqueue[1] # NoJob
    /\ jobsAdded[1] = 2
    /\ broadcastUpdate[1] # <<>>
    /\ certAnnouncement[1] # <<>>

(***************************************************************************)
(* Properties of the work queue (FairPushSpec).                            *)
(***************************************************************************)
\* C17: every job enqueued has its completion signal fired, whether it
\* succeeds, fails to build or fails to write: a queued job can be run to any
\* outcome, the step that runs it fires the signal, every queued job is
\* eventually signalled and no main loop waits forever; this holds for the
\* jobs enqueued after a failed one too
C17_JobsComplete ==
    /\ [](\A p \in Streams : workqueue[p] # NoJob
            => \A outcome \in JobOutcomes : ENABLED RunJob(p, outcome))
    /\ [][\A p \in Streams :
            (workqueue[p] # NoJob /\ workqueue'[p] = NoJob) => (~done[p] /\ done'[p])]_vars
    /\ \A p \in Streams : (workqueue[p] # NoJob) ~> done[p]
    /\ \A p \in Streams : (pc[p] = "await") ~> (pc[p] = "loop")

\* two jobs of the stream were enqueued, none has written a response, and the
\* main loop is back in its select: the job after a failed job was run and
\* signalled too
C17_Witness ==
    /\ jobsAdded[1] = 2
    /\ pc[1] = "loop"
    /\ ~InFlight(1)
    /\ \A t \in XDSTypes : emitted[1][t] = <<>>

(***************************************************************************)
(* Properties of the jobs that fail (PushSpec).                            *)
(***************************************************************************)
\* a worker runs the job of stream p in this step and no response is written
JobFails(p) ==
    /\ workqueue[p] # NoJob
    /\ workqueue'[p] = NoJob
    /\ emitted'[p] = emitted[p]

\* stream p takes a certificate event from its sink in this step
TakesCertificate(p) == Len(certAnnouncement'[p]) < Len(certAnnouncement[p])

\* C18: a job that fails leaves last-sent-version, last-sent-nonce and
\* last-sent-resources of every type URI unchanged, and nothing is sent
\* again by itself: a response is written by a queued job only, and a job is
\* enqueued only by the main loop taking a request, a proxy-broadcast or a
\* certificate event
C18_FailedJobLeavesState ==
    [][\A p \in Streams :
          /\ JobFails(p)
               => /\ proxy'[p].lastSentVersion = proxy[p].lastSentVersion
                  /\ proxy'[p].lastSentNonce = proxy[p].lastSentNonce
                  /\ proxy'[p].lastSentResources = proxy[p].lastSentResources
                  /\ nonceCount'[p] = nonceCount[p]
                  /\ done'[p]
          /\ emitted'[p] # emitted[p] => workqueue[p] # NoJob
          /\ jobsAdded'[p] # jobsAdded[p]
               => /\ pc[p] = "loop"
                  /\ ~InFlight(p)
                  /\ \/ workqueue'[p].request # NoRequest.typeUrl
                     \/ TakesBroadcast(p)
                     \/ TakesCertificate(p)]_vars

\* the one job of the stream, for the first LDS request, has failed: the main
\* loop is back in its select, nothing was written, nothing is queued, and
\* version, nonce and resources last sent are those of a new proxy, while the
\* subscription of the request is recorded
C18_Witness ==
    /\ jobsAdded[1] = 1
    /\ pc[1] = "loop"
    /\ ~InFlight(1)
    /\ \A t \in XDSTypes : emitted[1][t] = <<>>
    /\ proxy[1].subscribedResources[TypeLDS] = {"A"}
    /\ proxy[1].lastSentVersion = NewProxy.lastSentVersion
    /\ proxy[1].lastSentNonce = NewProxy.lastSentNonce
    /\ proxy[1].lastSentResources = NewProxy.lastSentResources

(***************************************************************************)
(* Properties of the stream's subscriptions and of the connection cap      *)
(* (LifecycleSpec).                                                        *)
(***************************************************************************)
\* the subscriptions the streams hold on the event bus: one to
\* proxy-broadcast and one to certificate-rotated for each subscribed stream
LiveSubscriptions == 2 * Cardinality({p \in Streams : subscribed[p]})

\* the streams that are in their main loop
OpenStreams == {p \in Streams : pc[p] \in {"loop", "await"}}

\* C19: on every exit path the stream's subscriptions to proxy-broadcast and
\* certificate-rotated are released: a stream that has ended holds none,
\* and the live subscriptions are those of the streams in their main loop
C19_ExitReleasesSubscriptions ==
    /\ \A p \in Streams : pc[p] = "done" => ~subscribed[p]
    /\ LiveSubscriptions = 2 * Cardinality(OpenStreams)

\* the stream p, with a valid client certificate, passes or fails the check
\* of max-data-plane-connections in this step
ChecksCap(p) ==
    /\ pc[p] = "new"
    /\ pc'[p] # "new"
    /\ exitCause'[p] # "unauthenticated"

\* the cap is set and reached
CapReached ==
    /\ maxDataPlaneConnections # 0
    /\ GetConnectedProxyCount >= maxDataPlaneConnections

\* C20: when max-data-plane-connections is not 0 and the number of connected
\* proxies has reached it, a new stream ends with too-many-connections, its
\* proxy is not registered and registry, connection gauge and subscriptions
\* are unchanged; otherwise the stream is not refused, and with the option 0
\* no stream is ever refused for this reason
C20_ConnectionCap ==
    /\ [](\A p \in Streams :
            exitCause[p] = "errTooManyConnections"
              => /\ maxDataPlaneConnections # 0
                 /\ pc[p] = "done"
                 /\ p \notin connectedProxies
                 /\ ~subscribed[p])
    /\ [][\A p \in Streams :
            /\ ChecksCap(p)
                 => IF CapReached
                    THEN /\ exitCause'[p] = "errTooManyConnections"
                         /\ pc'[p] = "done"
                         /\ connectedProxies' = connectedProxies
                         /\ proxyConnectCount' = proxyConnectCount
                         /\ subscribed' = subscribed
                    ELSE /\ exitCause'[p] = "none"
                         /\ pc'[p] = "connected"
            /\ exitCause'[p] # exitCause[p] /\ exitCause'[p] = "errTooManyConnections"
                 => (pc[p] = "new" /\ CapReached)]_vars

\* with the option at 1 one proxy is registered and its stream open, and the
\* stream of another was refused: registry and gauge count the first only
C20_Witness ==
    \E p, q \in Streams :
        /\ maxDataPlaneConnections = 1
        /\ pc[p] = "loop"
        /\ connectedProxies = {p}
        /\ exitCause[q] = "errTooManyConnections"
        /\ pc[q] = "done"
        /\ proxyConnectCount = 1

(***************************************************************************)
(* Properties of the start of a stream (LifecycleSpec).                    *)
(***************************************************************************)
\* the service account derived from the certificate of stream p
CertificateServiceAccount(p) ==
    GetServiceIdentityFromProxyCertificate(certCommonName[p]).sa

\* the stream p has built its proxy and is about to record the pod metadata
BuildsProxy(p) ==
    /\ pc[p] = "connected"
    /\ ~GetServiceIdentityFromProxyCertificate(certCommonName[p]).err

\* the step in which stream p looks up the pod and finds the given one ends
\* the stream with service-account-mismatch, the proxy not registered and not
\* subscribed
EndsWithMismatch(p, pod) ==
    InitProxy(p, pod)
      => /\ exitCause'[p] = "errServiceAccountMismatch"
         /\ pc'[p] = "done"
         /\ connectedProxies' = connectedProxies
         /\ subscribed' = subscribed

\* the step in which stream p looks up the pod and finds the given one
\* registers the proxy with the pod metadata meta and enters the main loop
Registers(p, pod, meta) ==
    InitProxy(p, pod)
      => /\ exitCause'[p] = "none"
         /\ pc'[p] = "loop"
         /\ connectedProxies' = connectedProxies \cup {p}
         /\ podMetadata'[p] = meta

\* a stream that ended with service-account-mismatch is not registered
MismatchNotRegistered ==
    \A p \in Streams :
        exitCause[p] = "errServiceAccountMismatch"
          => (pc[p] = "done" /\ p \notin connectedProxies /\ ~subscribed[p])

\* C21, as stated: when the service account of the pod of the certificate
\* differs from the one derived from the certificate's common name the stream
\* ends with service-account-mismatch and the proxy is never registered; when
\* there is no pod the proxy is registered without pod metadata and the
\* stream goes on
C21_ServiceAccountVerified ==
    /\ []MismatchNotRegistered
    /\ [][\A p \in Streams :
            BuildsProxy(p)
              => \A pod \in Pods :
                    /\ (pod.found /\ pod.ServiceAccount # CertificateServiceAccount(p))
                         => EndsWithMismatch(p, pod)
                    /\ ~pod.found => Registers(p, pod, NoPod)]_vars

\* C21, amended: the same for a proxy that is no gateway; for a gateway no
\* pod is looked up and the proxy is registered without pod metadata,
\* whatever the pod of its certificate
C21_SidecarServiceAccountVerified ==
    /\ []MismatchNotRegistered
    /\ [][\A p \in Streams :
            BuildsProxy(p)
              => \A pod \in Pods :
                    IF Kind(certCommonName[p]) = KindGateway
                    THEN Registers(p, pod, NoPod)
                    ELSE /\ (pod.found /\ pod.ServiceAccount # CertificateServiceAccount(p))
                              => EndsWithMismatch(p, pod)
                         /\ ~pod.found => Registers(p, pod, NoPod)
                         /\ (pod.found /\ pod.ServiceAccount = CertificateServiceAccount(p))
                              => Registers(p, pod, pod)]_vars

\* the stream of one sidecar has ended with service-account-mismatch and its
\* proxy is not registered, and the proxy of another sidecar, for which no
\* pod was found, is registered without pod metadata and its stream is in
\* the main loop
C21_Witness ==
    \E p, q \in Streams :
        /\ exitCause[p] = "errServiceAccountMismatch"
        /\ podMetadata[p].found
        /\ podMetadata[p].ServiceAccount # CertificateServiceAccount(p)
        /\ p \notin connectedProxies
        /\ certCommonName[q] = StreamCN(q)
        /\ Kind(certCommonName[q]) = KindSidecar
        /\ pc[q] = "loop"
        /\ q \in connectedProxies
        /\ podMetadata[q] = NoPod

(***************************************************************************)
(* Properties of the jobs of the control-plane pushes (PushSpec).          *)
(***************************************************************************)
\* the type URIs of a job, as a set
JobTypes(job) == {job.typeURIs[i] : i \in 1..Len(job.typeURIs)}

\* the job the main loop of stream p enqueues for a proxy-broadcast
BroadcastJob(p) == newJob(p, <<TypeCDS, TypeEDS, TypeLDS, TypeRDS>>, NoRequest)

\* a worker runs the job of stream p in this step
RunsJob(p) == workqueue[p] # NoJob /\ workqueue'[p] = NoJob

\* version, nonce and resources last sent to proxy px for type t
LastSent(px, t) ==
    <<px.lastSentVersion[t], px.lastSentNonce[t], px.lastSentResources[t]>>

\* C22: the job of a proxy-broadcast is for CDS, EDS, LDS and RDS and never
\* for SDS: the step that takes the proxy-broadcast and the worker's step
\* that runs its job leave the version, the nonce and the resources last
\* sent for SDS unchanged and write no SDS response; a job that succeeds
\* writes one response for each of the four type URIs, with the next version
C22_BroadcastExcludesSDS ==
    [][\A p \in Streams :
          /\ TakesBroadcast(p)
               => /\ LastSent(proxy'[p], TypeSDS) = LastSent(proxy[p], TypeSDS)
                  /\ emitted'[p] = emitted[p]
                  /\ jobsAdded'[p] # jobsAdded[p]
                       => /\ workqueue'[p] = BroadcastJob(p)
                          /\ JobTypes(workqueue'[p]) = {TypeCDS, TypeEDS, TypeLDS, TypeRDS}
          /\ (RunsJob(p) /\ workqueue[p] = BroadcastJob(p))
               => /\ LastSent(proxy'[p], TypeSDS) = LastSent(proxy[p], TypeSDS)
                  /\ emitted'[p][TypeSDS] = emitted[p][TypeSDS]
                  /\ emitted'[p] # emitted[p]
                       => \A t \in XDSTypes \ {TypeSDS} :
                             /\ Len(emitted'[p][t]) = Len(emitted[p][t]) + 1
                             /\ proxy'[p].lastSentVersion[t] = proxy[p].lastSentVersion[t] + 1
                             /\ proxy'[p].lastSentNonce[t] # proxy[p].lastSentNonce[t]
          /\ LastSent(proxy'[p], TypeSDS) # LastSent(proxy[p], TypeSDS)
               => /\ RunsJob(p)
                  /\ workqueue[p].typeURIs = <<TypeSDS>>]_vars

\* the job of a proxy-broadcast has run after the answer to the first CDS
\* request: CDS has two responses, EDS, LDS and RDS have one, and for SDS
\* nothing was written and the state is that of a new proxy
C22_Witness ==
    /\ Len(emitted[1][TypeCDS]) = 2
    /\ \A t \in {TypeEDS, TypeLDS, TypeRDS} : Len(emitted[1][t]) = 1
    /\ emitted[1][TypeSDS] = <<>>
    /\ LastSent(proxy[1], TypeSDS) = LastSent(NewProxy, TypeSDS)
    /\ workqueue[1] = NoJob

\* the common name cn has at least three components between dots, and the
\* first two are the name and the namespace of the service account in the
\* common name of the certificate of stream p
RotatedForProxy(p, cn) ==
    LET components == Split(cn)
        own == Split(certCommonName[p])
    IN /\ Len(components) >= 3
       /\ components[1] = own[3]
       /\ components[2] = own[4]

\* the job the main loop of stream p enqueues for a rotated certificate
CertificateJob(p) == newJob(p, <<TypeSDS>>, NoRequest)

\* C23: a stream that takes a certificate-rotated event enqueues a job for
\* SDS alone if and only if the common name of the rotated certificate has
\* at least three components of which the first two are the service account
\* of the proxy's own certificate; for any other common name the event
\* changes nothing for the proxy; and a job for SDS alone that answers no
\* request is enqueued by such an event only
C23_CertificateRotated ==
    [][\A p \in Streams :
          /\ TakesCertificate(p)
               => /\ proxy'[p] = proxy[p]
                  /\ emitted'[p] = emitted[p]
                  /\ IF RotatedForProxy(p, Head(certAnnouncement[p]))
                     THEN /\ workqueue'[p] = CertificateJob(p)
                          /\ jobsAdded'[p] = jobsAdded[p] + 1
                          /\ pc'[p] = "await"
                     ELSE /\ workqueue'[p] = workqueue[p]
                          /\ jobsAdded'[p] = jobsAdded[p]
                          /\ pc'[p] = pc[p]
                          /\ done'[p] = done[p]
          /\ (jobsAdded'[p] # jobsAdded[p] /\ workqueue'[p] = CertificateJob(p))
               => /\ TakesCertificate(p)
                  /\ RotatedForProxy(p, Head(certAnnouncement[p]))]_vars

\* stream 1 has taken the rotated certificate of its own service account from
\* its sink and waits for the SDS job, the first job of the stream: no
\* request was answered before
C23_Witness ==
    /\ pc[1] = "await"
    /\ workqueue[1] = CertificateJob(1)
    /\ jobsAdded[1] = 1
    /\ certAnnouncement[1] = <<>>

(***************************************************************************)
(* Properties of the versions a proxy acknowledges (Spec).                 *)
(***************************************************************************)
\* C24: after a request was accepted as an ACK (its nonce is the last sent
\* one, it has no error detail), last-applied-version is at most
\* last-sent-version for the proxy and the type URI, whatever version the
\* proxy put into the request
C24_AppliedAtMostSent ==
    [][\A t \in XDSTypes : \A req \in MatchingRequests(proxy[1], t, {FALSE}) :
          (proxy[1].lastSentNonce[t] # EmptyNonce /\ HandleRequest(1, req))
            => proxy'[1].lastAppliedVersion[t] <= proxy'[1].lastSentVersion[t]]_vars

(***************************************************************************)
(* Properties of the events the dispatcher takes (DispatcherSpec).         *)
(***************************************************************************)
\* events of every kind the dispatcher may take from its subscription: a
\* request for a proxy-broadcast, a deleted object, and updated objects with
\* equal and with different old and new objects
DispatcherEvents ==
    {PubSubMessage(ScheduleProxyBroadcast, "nil", "nil"),
     PubSubMessage(PodDeleted, "obj1", "obj1"),
     PubSubMessage(PodUpdated, "obj1", "obj2"),
     PubSubMessage(PodUpdated, "obj1", "obj1"),
     PubSubMessage(ServiceUpdated, "nil", "obj1"),
     PubSubMessage(ServiceUpdated, "nil", "nil")}

\* the topic is the updated variant of its kind
UpdatedTopic(type) == type[Len(type)] = "updated"

\* the event qualifies: it is a delta, or it asks for a proxy-broadcast
Qualifies(m) ==
    \/ ~UpdatedTopic(m.AnnouncementType)
    \/ m.OldObj # m.NewObj
    \/ m.AnnouncementType = ScheduleProxyBroadcast

\* the flag and the timers after a qualifying event: the flag set, the grace
\* timer armed anew, the hard timer armed if no window was open
Scheduled ==
    /\ broadcastScheduled'
    /\ chanMovingDeadline' = maxGraceDeadlineTime
    /\ chanMaxDeadline' = IF broadcastScheduled THEN chanMaxDeadline ELSE maxBroadcastDeadlineTime
    /\ pendingEvents' = pendingEvents + 1

\* a timer is armed or armed anew in this step, or the flag is set
Arms ==
    \/ chanMovingDeadline' > chanMovingDeadline
    \/ chanMaxDeadline' > chanMaxDeadline
    \/ broadcastScheduled' /\ ~broadcastScheduled
    \/ pendingEvents' > pendingEvents

\* the dispatcher takes the event m, and every step in which it does leaves
\* every variable as it was
Ignored(m) ==
    /\ ENABLED DispatchEvent(m)
    /\ ~ENABLED (DispatchEvent(m) /\ vars' # vars)

\* one more event and, outside a window, one more window are within the
\* bounds of the model
WithinEventBounds ==
    /\ pendingEvents < MaxEvents
    /\ broadcastScheduled \/ proxyBroadcastEventCount < MaxBroadcasts

\* C25: the dispatcher arms its timers for an event if and only if the event
\* is a delta or its topic is schedule-proxy-broadcast: such an event sets
\* the flag and arms the grace timer, and a step that arms a timer or sets
\* the flag is the dispatcher taking such an event; an updated event with
\* equal objects leaves the flag and both timers unchanged, with or without
\* an open window
C25_QualifyingEvents ==
    /\ [](\A m \in DispatcherEvents :
             IF Qualifies(m)
             THEN WithinEventBounds => ENABLED (DispatchEvent(m) /\ Scheduled)
             ELSE Ignored(m))
    /\ [][Arms => /\ Scheduled
                  /\ ~Publishes
                  /\ DispatchEvent(PubSubMessage(ScheduleProxyBroadcast, "nil", "nil"))]_vars

\* a window is open, with its grace timer running down, after one event: an
\* updated event with equal objects taken now changes nothing, and an updated
\* event with different objects arms the grace timer anew
C25_Witness ==
    /\ broadcastScheduled
    /\ pendingEvents = 1
    /\ chanMovingDeadline = 1
    /\ Ignored(PubSubMessage(PodUpdated, "obj1", "obj1"))
    /\ ENABLED (DispatchEvent(PubSubMessage(PodUpdated, "obj1", "obj2"))
                  /\ chanMovingDeadline' = maxGraceDeadlineTime)

\* C26: a qualifying event that arrives while a proxy-broadcast is scheduled
\* arms the grace timer anew, to the grace period after this event, and
\* leaves the hard timer alone: while a window is open the hard timer fires
\* the hard deadline after the first qualifying event of the window, however
\* many events followed
C26_HardDeadlineKept ==
    /\ [](broadcastScheduled
            => /\ pendingEvents >= 1
               /\ chanMaxDeadline = maxBroadcastDeadlineTime - sinceFirst
               /\ chanMovingDeadline = maxGraceDeadlineTime - sinceLast)
    /\ [][(Arms /\ broadcastScheduled)
            => /\ chanMovingDeadline' = maxGraceDeadlineTime
               /\ chanMaxDeadline' = chanMaxDeadline
               /\ broadcastScheduled'
               /\ sinceFirst' = sinceFirst
               /\ sinceLast' = 0]_vars

\* the fourth event or a later one of a window arrived thirteen seconds
\* after the first: the grace timer is armed anew and the hard timer fires
\* in two seconds, before it
C26_Witness ==
    /\ broadcastScheduled
    /\ pendingEvents >= 4
    /\ sinceFirst = maxBroadcastDeadlineTime - 2
    /\ sinceLast = 0
    /\ chanMovingDeadline = maxGraceDeadlineTime
    /\ chanMaxDeadline = 2

(***************************************************************************)
(* Properties of the certificate-release handler (ReleaseSpec).            *)
(***************************************************************************)
\* the handler takes an event from its sink in this step
TakesPodDeleted == handled' # handled

\* an informer publishes an event in this step
PublishesEvent == podEvents' # podEvents

\* the event is the deletion of a pod whose UID the registry has recorded
RecordedPodDeleted(m) ==
    /\ m.AnnouncementType = PodDeleted
    /\ m.OldObj \in PodUIDs
    /\ podUIDToCN[m.OldObj] # NoCN

\* a pod-deleted event for the pod is in the sink of the handler
Pending(uid) ==
    \E i \in 1..Len(podDeleteSubscription) : podDeleteSubscription[i].OldObj = uid

\* the handler releases nothing and requests no proxy-broadcast in this step
ReleasesNothing ==
    /\ certificates' = certificates
    /\ scheduleRequests' = scheduleRequests
    /\ connectedProxies' = connectedProxies
    /\ podUIDToCN' = podUIDToCN

\* C28: the handler releases no certificate and publishes no
\* schedule-proxy-broadcast for an event of another topic than pod-deleted,
\* also when it carries a pod of the mesh, nor for a pod-deleted event whose
\* pod UID the registry has not recorded: the certificates issued and the
\* proxies connected stay as they were
C28_OtherEventsIgnored ==
    /\ [](\A i \in 1..Len(podDeleteSubscription) :
             podDeleteSubscription[i].AnnouncementType = PodDeleted)
    /\ [][/\ PublishesEvent
               => /\ ReleasesNothing
                  /\ subChannel'[Len(subChannel')].AnnouncementType # PodDeleted
                       => /\ podDeleteSubscription' = podDeleteSubscription
                          /\ unreleased' = unreleased
          /\ (TakesPodDeleted /\ ~RecordedPodDeleted(Head(podDeleteSubscription)))
               => /\ ReleasesNothing
                  /\ subChannel' = subChannel
          /\ (certificates' # certificates /\ certificates' \subseteq certificates)
               => /\ TakesPodDeleted
                  /\ RecordedPodDeleted(Head(podDeleteSubscription))
          /\ scheduleRequests' # scheduleRequests
               => /\ TakesPodDeleted
                  /\ RecordedPodDeleted(Head(podDeleteSubscription))]_vars

\* the proxies of both pods of the mesh are registered and have their
\* certificates; two events were published and the running handler has taken
\* one, the deletion of a pod without record: nothing was released and no
\* proxy-broadcast requested
C28_Witness ==
    /\ handler = "running"
    /\ \A uid \in MeshPods : podUIDToCN[uid] = PodCN(uid) /\ PodCN(uid) \in certificates
    /\ handled = 1
    /\ scheduleRequests = 0
    /\ podDeleteSubscription = <<>>
    /\ subChannel # <<>>
    /\ subChannel[Len(subChannel)] = PubSubMessage(IngressAdded, "pod1", "nil")

\* C27, as stated: while the handler runs, every pod-deleted event for a pod
\* whose UID the registry has recorded is eventually followed by the release
\* of the certificate of its common name
C27_EveryEventReleased ==
    \A uid \in MeshPods :
        unreleased[uid] ~> (~unreleased[uid] \/ handler # "running")

\* C27, amended: while the handler runs, every pod-deleted event in its sink
\* is eventually taken or displaced; an event leaves the sink only when the
\* handler takes it or when a later event is published to the full sink; and
\* the handler that takes an event for a recorded pod releases the
\* certificate of its common name and publishes one schedule-proxy-broadcast
C27_TakenEventsReleased ==
    /\ \A uid \in PodUIDs :
          Pending(uid) ~> (~Pending(uid) \/ handler # "running")
    /\ [][/\ \A uid \in PodUIDs :
                (Pending(uid) /\ ~Pending(uid)')
                  => \/ TakesPodDeleted /\ Head(podDeleteSubscription).OldObj = uid
                     \/ PublishesEvent /\ Len(podDeleteSubscription) = SinkSize
          /\ (TakesPodDeleted /\ RecordedPodDeleted(Head(podDeleteSubscription)))
               => LET podUID == Head(podDeleteSubscription).OldObj
                  IN /\ podUIDToCN[podUID] \notin certificates'
                     /\ certificates' = certificates \ {podUIDToCN[podUID]}
                     /\ scheduleRequests' = scheduleRequests + 1
                     /\ subChannel'[Len(subChannel')] = ScheduleProxyBroadcastMessage
                     /\ ~unreleased'[podUID]]_vars

\* the proxies of both pods were registered; the handler has taken the
\* deletion of the first pod and released its certificate, the certificate
\* of the other pod is still there, and one proxy-broadcast was requested
C27_Witness ==
    /\ handler = "running"
    /\ \A uid \in MeshPods : podUIDToCN[uid] = PodCN(uid)
    /\ certificates = {PodCN("pod2")}
    /\ handled = 1
    /\ scheduleRequests = 1
    /\ subChannel # <<>>
    /\ subChannel[Len(subChannel)] = ScheduleProxyBroadcastMessage
    /\ \A uid \in PodUIDs : ~unreleased[uid]

(***************************************************************************)
(* Properties of the handler and the dispatcher together (CoalesceSpec).   *)
(***************************************************************************)
\* the dispatcher takes the oldest event of its sink in this step
ReceivesEvent == Len(subChannel') < Len(subChannel)

\* the event is the deletion of a pod or a request for a proxy-broadcast
DeletionOrRequest(m) ==
    m.AnnouncementType \in {PodDeleted, ScheduleProxyBroadcast}

\* C29: the pod-deleted event and the schedule-proxy-broadcast the handler
\* publishes for it both qualify for the dispatcher: each is counted as an
\* event of a window and none publishes; the one that reaches the dispatcher
\* while the window of the other is open joins that window, whose hard
\* deadline stays; and the publication that ends the window is one
\* proxy-broadcast for all the events of the window, after which no timer is
\* armed
C29_DoubleTriggerCoalesced ==
    [][/\ (ReceivesEvent /\ DeletionOrRequest(Head(subChannel)))
            => /\ broadcastScheduled'
               /\ pendingEvents' = pendingEvents + 1
               /\ proxyBroadcastEventCount' = proxyBroadcastEventCount
               /\ chanMovingDeadline' = maxGraceDeadlineTime
               /\ broadcastScheduled
                    => /\ pendingEvents >= 1
                       /\ chanMaxDeadline' = chanMaxDeadline
       /\ Publishes
            => /\ proxyBroadcastEventCount' = proxyBroadcastEventCount + 1
               /\ coalesced' = pendingEvents
               /\ pendingEvents' = 0
               /\ ~broadcastScheduled'
               /\ chanMovingDeadline' = NoTimer
               /\ chanMaxDeadline' = NoTimer]_vars

\* one pod of the mesh was deleted: the dispatcher has taken the pod-deleted
\* event and, in the window it opened, the request of the handler, and one
\* proxy-broadcast was published for the two; no window is open and no event
\* is left
C29_Witness ==
    /\ podEvents = 1
    /\ scheduleRequests = 1
    /\ handled = 1
    /\ proxyBroadcastEventCount = 1
    /\ coalesced = 2
    /\ ~broadcastScheduled
    /\ subChannel = <<>>
    /\ podDeleteSubscription = <<>>

(***************************************************************************)
(* Properties of the event bus (ReleaseSpec): the handler takes events     *)
(* from its sink, the sink of the dispatcher is not read.                  *)
(***************************************************************************)
\* the sink after the delivery of the event m: the oldest event is dropped
\* from a full sink, and m is the newest
Delivered(sink, m) ==
    IF Len(sink) = SinkSize
    THEN [i \in 1..SinkSize |-> IF i < SinkSize THEN sink[i + 1] ELSE m]
    ELSE [i \in 1..(Len(sink) + 1) |-> IF i <= Len(sink) THEN sink[i] ELSE m]

\* the sink after a step is the sink before it without some of its oldest
\* events and with at most one event more, the newest
QueueStep(before, after) ==
    \E dropped \in 0..1, added \in 0..1 :
        /\ Len(after) = Len(before) - dropped + added
        /\ \A i \in 1..(Len(before) - dropped) : after[i] = before[i + dropped]

C32_UnscheduledAfterBroadcast ==
    /\ [](~broadcastScheduled
            => /\ chanMovingDeadline = NoTimer
               /\ chanMaxDeadline = NoTimer
               /\ pendingEvents = 0
               /\ ~ENABLED MovingDeadlineTrigger
               /\ ~ENABLED MaxDeadlineTrigger)
    /\ [][/\ Publishes
               => /\ lastTrigger' \in {"chanMovingDeadline", "chanMaxDeadline"}
                  /\ ~broadcastScheduled'
                  /\ chanMovingDeadline' = NoTimer
                  /\ chanMaxDeadline' = NoTimer
          /\ (~broadcastScheduled /\ broadcastScheduled')
               => /\ ~Publishes
                  /\ chanMovingDeadline' = maxGraceDeadlineTime
                  /\ chanMaxDeadline' = maxBroadcastDeadlineTime
                  /\ pendingEvents' = 1
                  /\ sinceFirst' = 0]_vars

\* the hard timer has published the proxy-broadcast of a window of churn, and
\* an event that arrived later has opened the next window, with the full hard
\* deadline ahead
C32_Witness ==
    /\ proxyBroadcastEventCount = 1
    /\ lastTrigger = "chanMaxDeadline"
    /\ waited = maxBroadcastDeadlineTime
    /\ broadcastScheduled
    /\ pendingEvents = 1
    /\ sinceFirst = 0
    /\ chanMaxDeadline = maxBroadcastDeadlineTime

(***************************************************************************)
(* Properties of the version arithmetic (Spec).                            *)
(***************************************************************************)
\* C39: the response to the request of a reconnecting proxy, which reports
\* a version V that parses, any value of the counter's range included, carries
\* a version greater than V
C39_NoWrapAround ==
    [][\A t \in XDSTypes :
          LET V == proxy[1].lastSentVersion[t]
              responses == emitted'[1][t]
          IN (/\ workqueue[1].typeURIs = <<t>>
              /\ proxy[1].lastSentNonce[t] = EmptyNonce
              /\ proxy[1].lastAppliedVersion[t] = V
              /\ responses # emitted[1][t])
               => ParseUint(responses[Len(responses)].versionInfo).val > V]_vars

(***************************************************************************)
(* Properties of concurrently starting streams (LifecycleSpec).            *)
(***************************************************************************)
\* C35: with max-data-plane-connections set, the number of registered
\* proxies never exceeds it, however the streams start and end
C35_RegisteredWithinCap ==
    maxDataPlaneConnections # 0 => GetConnectedProxyCount <= maxDataPlaneConnections

\* the streams that have incremented the gauge and have not returned
CountedStreams == {p \in Streams : pc[p] \in {"connected", "loop", "await"}}

\* C36: the ProxyConnectCount gauge is the number of streams between its
\* increment and their return, whatever the cause of the return
C36_GaugeBalanced ==
    proxyConnectCount = Cardinality(CountedStreams)

(***************************************************************************)
(* Properties of cancellation (FairCancelSpec).                            *)
(***************************************************************************)
\* the stream has returned and its proxy is not registered
Returned(p) == pc[p] = "done" /\ p \notin connectedProxies

\* C34: a stream whose context is cancelled returns, with its proxy
\* unregistered; while its main loop waits for the completion signal of a job
\* it cannot return, whether cancelled or not, and goes on when the signal
\* has fired, so a stream cancelled during the wait returns after the job
C34_CancelledStreamReturns ==
    /\ \A p \in Streams : cancelled[p] ~> Returned(p)
    /\ [](\A p \in Streams :
             pc[p] = "await"
               => /\ ~ENABLED ExitCancelled(p)
                  /\ ~ENABLED ExitQuit(p)
                  /\ ~ENABLED ExitClosed(p)
                  /\ done[p] => ENABLED JobCompleted(p))
    /\ [][\A p \in Streams :
            (pc[p] = "await" /\ pc'[p] # "await") => (done[p] /\ pc'[p] = "loop")]_vars

\* the context of the stream was cancelled while its main loop waits for a
\* job that no worker has run yet
C34_Witness ==
    /\ cancelled[1]
    /\ pc[1] = "await"
    /\ workqueue[1] # NoJob
    /\ ~done[1]
    /\ 1 \in connectedProxies

(***************************************************************************)
(* Properties of two proxies (PeersSpec).                                  *)
(***************************************************************************)
\* what proxy record px holds for type URI t
PerType(px, t) ==
    <<px.lastSentVersion[t], px.lastSentNonce[t], px.lastAppliedVersion[t],
      px.subscribedResources[t], px.lastSentResources[t]>>

\* the step leaves alone what the server holds for stream q
StreamUntouched(q) ==
    /\ proxy'[q] = proxy[q]
    /\ workqueue'[q] = workqueue[q]
    /\ done'[q] = done[q]
    /\ jobsAdded'[q] = jobsAdded[q]
    /\ nonceCount'[q] = nonceCount[q]
    /\ emitted'[q] = emitted[q]
    /\ pc'[q] = pc[q]

\* C33: the main loop of stream p handling a request changes, of what the
\* proxies hold per type URI, only the entries of p for one type URI, the
\* type URI of the request: the job it enqueues is for that type alone, and
\* the job, when it runs, writes one response of that type and changes the
\* entries of p for that type only; no step of stream p changes what the
\* server holds for another stream
C33_RequestFrame ==
    [][\A p \in Streams :
          /\ (TakesRequests(p) /\ <<proxy[p], jobsAdded[p]>>' # <<proxy[p], jobsAdded[p]>>)
               => /\ \E t \in XDSTypes :
                        /\ \A other \in XDSTypes \ {t} :
                               PerType(proxy'[p], other) = PerType(proxy[p], other)
                        /\ jobsAdded'[p] # jobsAdded[p]
                               => /\ workqueue'[p].typeURIs = <<t>>
                                  /\ workqueue'[p].request = t
                  /\ emitted'[p] = emitted[p]
                  /\ \A q \in Streams \ {p} : StreamUntouched(q)
          /\ (workqueue[p] # NoJob /\ workqueue'[p] = NoJob)
               => /\ \A other \in XDSTypes \ {workqueue[p].request} :
                        /\ PerType(proxy'[p], other) = PerType(proxy[p], other)
                        /\ emitted'[p][other] = emitted[p][other]
                  /\ \A q \in Streams \ {p} : StreamUntouched(q)]_vars

\* both proxies have been answered for the wildcard type, each with its own
\* version, and the first one reconnects for the other type: its job for that
\* type is queued, with the version the proxy reported adopted for that type
C33_Witness ==
    /\ proxy[1].lastSentNonce[TypeCDS] # EmptyNonce
    /\ proxy[NumStreams].lastSentNonce[TypeCDS] # EmptyNonce
    /\ proxy[1].lastSentVersion[TypeCDS] # proxy[NumStreams].lastSentVersion[TypeCDS]
    /\ workqueue[1].request = TypeEDS
    /\ proxy[1].lastSentVersion[TypeEDS] = MaxUint64
    /\ proxy[1].lastSentVersion[TypeCDS] # MaxUint64

\* the requests without nonce and without error detail for type URI t
NoNonceRequests(t) ==
    RequestsOf(t, {<<>>}, {EmptyNonce}, {<<"A">>, <<"A", "B">>}, {FALSE})

\* a response of type URI t was sent on stream p
MidStream(p, t) == proxy[p].lastSentNonce[t] # EmptyNonce

Released(uid) ==
    /\ podUIDToCN[uid] # NoCN
    /\ podUIDToCN[uid] \notin certificates

\* C38: once the certificate of a pod is released, the handler answers a
\* further pod-deleted event for the pod with no release and no request for
\* a proxy-broadcast
C38_ReleasedAtMostOnce ==
    [][\A uid \in MeshPods :
          (TakesPodDeleted /\ Head(podDeleteSubscription).OldObj = uid /\ Released(uid))
            => /\ scheduleRequests' = scheduleRequests
               /\ subChannel' = subChannel]_vars

(***************************************************************************)
(* Properties of the CDS builder (BuilderSpec).                            *)
(***************************************************************************)
NamesOf(list) == {list[i].Name : i \in DOMAIN list}

\* the position of the first cluster of the name in the list
FirstOccurrence(list, name) ==
    CHOOSE i \in DOMAIN list :
        /\ list[i].Name = name
        /\ \A j \in 1..(i - 1) : list[j].Name # name

\* C31: removeDups returns for every list of clusters, duplicates included;
\* what it returns has each name of the list exactly once, with the first
\* cluster of that name, in the order of the first occurrences
C31_RemoveDups ==
    [](/\ ~cdsBuilt => ENABLED ReturnClusters
       /\ cdsBuilt
            => /\ NamesOf(cdsResources) = NamesOf(cdsClusters)
               /\ \A i, j \in DOMAIN cdsResources :
                      cdsResources[i].Name = cdsResources[j].Name => i = j
               /\ \A i \in DOMAIN cdsResources :
                      cdsResources[i] =
                          cdsClusters[FirstOccurrence(cdsClusters, cdsResources[i].Name)]
               /\ \A i, j \in DOMAIN cdsResources :
                      i < j => FirstOccurrence(cdsClusters, cdsResources[i].Name)
                                 < FirstOccurrence(cdsClusters, cdsResources[j].Name))

\* a list with two different clusters of one name around a cluster of another
\* name was returned without the later duplicate
C31_Witness ==
    /\ cdsBuilt
    /\ cdsClusters = <<Cluster("c2", "v2"), Cluster("c1", "v1"), Cluster("c2", "v1")>>
    /\ cdsResources = <<Cluster("c2", "v2"), Cluster("c1", "v1")>>
    /\ duplicateClusters = 1
====
